---- MODULE Spec2Model ----
(***************************************************************************)
(* Model of the Progol portfolio page (src/pages/index.tsx): the match     *)
(* classifier, the core/satellite ticket generators with their draw-count  *)
(* adjustment, the portfolio validator, and the page handlers that chain   *)
(* them.                                                                   *)
(*                                                                         *)
(* Numbers.  A probability is an integer numerator over the match's own    *)
(* denominator den (Escala for the matches the method calls draw from), so *)
(* prob/den is compared with a source literal such as 0.60 by              *)
(* cross-multiplication: prob * 100 > 60 * den.  Thresholds are kept in    *)
(* hundredths (0.60 is 60).  A ticket outcome is one of "L" (local/home),  *)
(* "E" (empate/draw), "V" (visitante/away), as in the source.              *)
(***************************************************************************)
EXTENDS Integers, Sequences, FiniteSets, TLC

VARIABLES
    partidosRegular,       \* page state: useState partidosRegular
    partidosClasificados,  \* page state: useState partidosClasificados
    quinielasCore,         \* page state: useState quinielasCore
    quinielasSatelites,    \* page state: useState quinielasSatelites
    quinielasFinales,      \* page state: useState quinielasFinales
    validacion,            \* page state: useState validacion (<<>> is null)
    numQuinielas,          \* page state: config.numQuinielas
    llamada,               \* a call of one of the classes' methods: its arguments
    retorno                \* what the call returned: <<>> before it returns, <<value>> after

vars == <<partidosRegular, partidosClasificados, quinielasCore, quinielasSatelites,
          quinielasFinales, validacion, numQuinielas, llamada, retorno>>

paginaVars == <<partidosRegular, partidosClasificados, quinielasCore, quinielasSatelites,
                quinielasFinales, validacion, numQuinielas>>

(***************************************************************************)
(* Bounds of the model.                                                    *)
(***************************************************************************)
\* Probabilities are multiples of 1/Escala.
Escala == 20
\* Matches per list in the calls of the generator's methods (the page uses 14).
NumPartidos == 7
\* Satellites asked of generateSatelliteQuinielas in its calls (the page asks up to 36).
MaxSatelites == 4
\* Negative counts down to -MaxNegativos are passed as well.
MaxNegativos == 2
\* Length of the repeating pattern of random draws of a call.
LargoPatron == 5
\* Copies of each palette ticket in the portfolios given to validatePortfolio.
MaxCopias == 8
\* Largest ticket count the slider is moved to (the source allows 5..40); the
\* configuration starts at 20.
MaxNumQuinielas == 5
\* Raw probabilities of the calibrator's calls are multiples of 1/PasosProb.
PasosProb == 4
\* forma_diferencia of the calibrator's calls is in -MaxForma..MaxForma, and
\* lesiones_impact in -MaxLesiones..MaxLesiones.
MaxForma == 10
MaxLesiones == 1

(***************************************************************************)
(* PROGOL_CONFIG and the classifier's thresholds, in hundredths.           *)
(***************************************************************************)
EMPATES_MIN == 4
EMPATES_MAX == 6
umbralAncla == 60
umbralDivisorMin == 40
umbralDivisorMax == 60
umbralEmpate == 30
\* The literal 0.20 of ajustarEmpates: a slot is a candidate when prob_empate > 0.20.
umbralCandidatoEmpate == 20
\* PROGOL_CONFIG.CALIBRACION and DRAW_PROPENSITY, in hundredths.
k1_forma == 15
k2_lesiones == 10
k3_contexto == 20
umbral_diferencia == 8
boost_empate == 6
CONCENTRACION_MAX_GENERAL == 70
CONCENTRACION_MAX_INICIAL == 60
\* calcularProb11Plus: const numSimulaciones = 1000.
numSimulaciones == 1000

Resultados == {"L", "E", "V"}

Min2(a, b) == IF a < b THEN a ELSE b
Max2(a, b) == IF a > b THEN a ELSE b
Abs(a) == IF a < 0 THEN 0 - a ELSE a

RECURSIVE Mcd(_, _)
Mcd(a, b) == IF b = 0 THEN a ELSE Mcd(b, a % b)

(***************************************************************************)
(* MatchClassifier.  A calibrated match holds the numerators prob_local,   *)
(* prob_empate, prob_visitante of its three probabilities over the common  *)
(* denominator den > 0, so two probabilities of one match compare as their *)
(* numerators, and prob/den compares with the literal c/100 by             *)
(* cross-multiplication.                                                   *)
(***************************************************************************)
\* prob/den > c/100, >= c/100, < c/100.
MayorQue(prob, den, c) == prob * 100 > c * den
MayorIgual(prob, den, c) == prob * 100 >= c * den
MenorQue(prob, den, c) == prob * 100 < c * den

\* aplicarCalibracionBayesiana on a raw match whose probabilities are numerators
\* over partido.den.  With F = 100 * factorAjuste and M = 100 * Math.max(
\* factorAjuste, 0.1), the three scaled probabilities are written over
\* 100 * M * partido.den; the returned numerators are over their sum (the
\* renormalisation), reduced to lowest terms.  A returned den of 0 is the
\* division by a zero total: the probabilities are then Infinity, -Infinity or
\* (numerator 0) NaN.
aplicarCalibracionBayesiana(partido) ==
    LET F == 100 + k1_forma * partido.forma_diferencia
                 + k2_lesiones * partido.lesiones_impact
                 + (IF partido.es_final THEN k3_contexto ELSE 0)
        M == Max2(F, 10)
        probLocal == partido.prob_local * F * M
        probEmpate0 == partido.prob_empate * 100 * M
        probVisitante == partido.prob_visitante * 100 * 100
        propenso == /\ Abs(probLocal - probVisitante) < umbral_diferencia * M * partido.den
                    /\ probEmpate0 > Max2(probLocal, probVisitante)
        probEmpate == IF propenso
                      THEN Min2(probEmpate0 + boost_empate * M * partido.den,
                                95 * M * partido.den)
                      ELSE probEmpate0
        total == probLocal + probEmpate + probVisitante
        comun == Mcd(Mcd(Abs(probLocal), Abs(probEmpate)), Abs(probVisitante))
        g == IF comun = 0 THEN 1 ELSE comun
    IN  [prob_local |-> probLocal \div g,
         prob_empate |-> probEmpate \div g,
         prob_visitante |-> probVisitante \div g,
         den |-> total \div g]

maxProb(partido) ==
    Max2(partido.prob_local, Max2(partido.prob_empate, partido.prob_visitante))

\* clasificarPartido with the Divisor rule tried before the TendenciaEmpate rule.
clasificarPartidoDivisorPrimero(partido) ==
    IF MayorQue(maxProb(partido), partido.den, umbralAncla) THEN "Ancla"
    ELSE IF /\ MayorIgual(maxProb(partido), partido.den, umbralDivisorMin)
            /\ MenorQue(maxProb(partido), partido.den, umbralDivisorMax)
         THEN "Divisor"
    ELSE IF /\ MayorQue(partido.prob_empate, partido.den, umbralEmpate)
            /\ partido.prob_empate >= Max2(partido.prob_local, partido.prob_visitante)
         THEN "TendenciaEmpate"
    ELSE "Neutro"

clasificarPartido(partido) ==
    IF MayorQue(maxProb(partido), partido.den, umbralAncla) THEN "Ancla"
    ELSE IF /\ MayorQue(partido.prob_empate, partido.den, umbralEmpate)
            /\ partido.prob_empate >= Max2(partido.prob_local, partido.prob_visitante)
         THEN "TendenciaEmpate"
    ELSE IF /\ MayorIgual(maxProb(partido), partido.den, umbralDivisorMin)
            /\ MenorQue(maxProb(partido), partido.den, umbralDivisorMax)
         THEN "Divisor"
    ELSE "Neutro"

probDe(partido, r) ==
    IF r = "L" THEN partido.prob_local
    ELSE IF r = "E" THEN partido.prob_empate
    ELSE partido.prob_visitante

\* Object.keys(probs).reduce((a, b) => probs[a] > probs[b] ? a : b) over L, E, V.
getResultadoSugerido(partido) ==
    LET a == IF probDe(partido, "L") > probDe(partido, "E") THEN "L" ELSE "E"
    IN  IF probDe(partido, a) > probDe(partido, "V") THEN a ELSE "V"

\* probs.sort((a, b) => b - a); probs[0] - probs[1], as a numerator over den.
calcularConfianza(partido) ==
    LET l == partido.prob_local
        e == partido.prob_empate
        v == partido.prob_visitante
        mayor == Max2(l, Max2(e, v))
        menor == Min2(l, Min2(e, v))
    IN  mayor - (l + e + v - mayor - menor)

\* The record classifyMatches builds for the calibrated match of slot id.
clasificado(id, local, visitante, calibrado) ==
    [id |-> id,
     local |-> local,
     visitante |-> visitante,
     prob_local |-> calibrado.prob_local,
     prob_empate |-> calibrado.prob_empate,
     prob_visitante |-> calibrado.prob_visitante,
     den |-> calibrado.den,
     clasificacion |-> clasificarPartido(calibrado),
     resultadoSugerido |-> getResultadoSugerido(calibrado),
     confianza |-> calcularConfianza(calibrado)]

classifyMatches(partidos) ==
    [i \in 1..Len(partidos) |->
        clasificado(i - 1, partidos[i].local, partidos[i].visitante,
                    aplicarCalibracionBayesiana(partidos[i]))]

(***************************************************************************)
(* Array.prototype.sort with the comparators of the source: a stable sort  *)
(* of records by prob/den.                                                 *)
(***************************************************************************)
RECURSIVE InsertDesc(_, _)
InsertDesc(s, x) ==
    IF s = <<>> THEN <<x>>
    ELSE IF Head(s).prob * x.den >= x.prob * Head(s).den
         THEN <<Head(s)>> \o InsertDesc(Tail(s), x)
    ELSE <<x>> \o s

RECURSIVE sortDesc(_)
sortDesc(s) ==
    IF s = <<>> THEN <<>>
    ELSE InsertDesc(sortDesc(SubSeq(s, 1, Len(s) - 1)), s[Len(s)])

RECURSIVE InsertAsc(_, _)
InsertAsc(s, x) ==
    IF s = <<>> THEN <<x>>
    ELSE IF Head(s).prob * x.den <= x.prob * Head(s).den
         THEN <<Head(s)>> \o InsertAsc(Tail(s), x)
    ELSE <<x>> \o s

RECURSIVE sortAsc(_)
sortAsc(s) ==
    IF s = <<>> THEN <<>>
    ELSE InsertAsc(sortAsc(SubSeq(s, 1, Len(s) - 1)), s[Len(s)])

(***************************************************************************)
(* PortfolioGenerator                                                      *)
(***************************************************************************)
getResultadoAlternativo(partido) ==
    LET probs == << [resultado |-> "L", prob |-> partido.prob_local, den |-> partido.den],
                    [resultado |-> "E", prob |-> partido.prob_empate, den |-> partido.den],
                    [resultado |-> "V", prob |-> partido.prob_visitante, den |-> partido.den] >>
    IN  sortDesc(probs)[2].resultado

contarEmpates(quiniela) == Cardinality({i \in DOMAIN quiniela : quiniela[i] = "E"})

\* The candidate slots of a ticket, in slot order, as {index, prob} records: its
\* draws (esEmpate), or its non-draws whose match has prob_empate > 0.20.
RECURSIVE candidatosDe(_, _, _, _)
candidatosDe(quiniela, partidos, esEmpate, i) ==
    IF i > Len(quiniela) THEN <<>>
    ELSE LET resto == candidatosDe(quiniela, partidos, esEmpate, i + 1)
             toma == IF esEmpate
                     THEN quiniela[i] = "E"
                     ELSE /\ quiniela[i] # "E"
                          /\ MayorQue(partidos[i].prob_empate, partidos[i].den,
                                      umbralCandidatoEmpate)
         IN  IF toma
             THEN <<[index |-> i, prob |-> partidos[i].prob_empate,
                     den |-> partidos[i].den]>> \o resto
             ELSE resto

\* ajustarEmpates with the add-path loop one iteration short.
ajustarEmpatesUnoMenos(quiniela, partidos) ==
    LET empatesActuales == contarEmpates(quiniela)
    IN  IF empatesActuales < EMPATES_MIN
        THEN LET empatesNecesarios == EMPATES_MIN - empatesActuales
                 candidatos == sortDesc(candidatosDe(quiniela, partidos, FALSE, 1))
                 n == Min2(empatesNecesarios, Len(candidatos)) - 1
                 cambia == {candidatos[k].index : k \in 1..n}
             IN  [i \in DOMAIN quiniela |-> IF i \in cambia THEN "E" ELSE quiniela[i]]
        ELSE IF empatesActuales > EMPATES_MAX
        THEN LET empatesExceso == empatesActuales - EMPATES_MAX
                 candidatosEmpate == sortAsc(candidatosDe(quiniela, partidos, TRUE, 1))
                 n == Min2(empatesExceso, Len(candidatosEmpate))
                 cambia == {candidatosEmpate[k].index : k \in 1..n}
             IN  [i \in DOMAIN quiniela |->
                     IF i \in cambia THEN partidos[i].resultadoSugerido ELSE quiniela[i]]
        ELSE quiniela

\* ajustarEmpates with its add path taken below 5 draws (EMPATES_MIN + 1).
ajustarEmpatesDesdeCinco(quiniela, partidos) ==
    LET empatesActuales == contarEmpates(quiniela)
    IN  IF empatesActuales < EMPATES_MIN + 1
        THEN LET empatesNecesarios == EMPATES_MIN + 1 - empatesActuales
                 candidatos == sortDesc(candidatosDe(quiniela, partidos, FALSE, 1))
                 n == Min2(empatesNecesarios, Len(candidatos))
                 cambia == {candidatos[k].index : k \in 1..n}
             IN  [i \in DOMAIN quiniela |-> IF i \in cambia THEN "E" ELSE quiniela[i]]
        ELSE IF empatesActuales > EMPATES_MAX
        THEN LET empatesExceso == empatesActuales - EMPATES_MAX
                 candidatosEmpate == sortAsc(candidatosDe(quiniela, partidos, TRUE, 1))
                 n == Min2(empatesExceso, Len(candidatosEmpate))
                 cambia == {candidatosEmpate[k].index : k \in 1..n}
             IN  [i \in DOMAIN quiniela |->
                     IF i \in cambia THEN partidos[i].resultadoSugerido ELSE quiniela[i]]
        ELSE quiniela

ajustarEmpates(quiniela, partidos) ==
    LET empatesActuales == contarEmpates(quiniela)
    IN  IF empatesActuales < EMPATES_MIN
        THEN LET empatesNecesarios == EMPATES_MIN - empatesActuales
                 candidatos == sortDesc(candidatosDe(quiniela, partidos, FALSE, 1))
                 n == Min2(empatesNecesarios, Len(candidatos))
                 cambia == {candidatos[k].index : k \in 1..n}
             IN  [i \in DOMAIN quiniela |-> IF i \in cambia THEN "E" ELSE quiniela[i]]
        ELSE IF empatesActuales > EMPATES_MAX
        THEN LET empatesExceso == empatesActuales - EMPATES_MAX
                 candidatosEmpate == sortAsc(candidatosDe(quiniela, partidos, TRUE, 1))
                 n == Min2(empatesExceso, Len(candidatosEmpate))
                 cambia == {candidatosEmpate[k].index : k \in 1..n}
             IN  [i \in DOMAIN quiniela |->
                     IF i \in cambia THEN partidos[i].resultadoSugerido ELSE quiniela[i]]
        ELSE quiniela

\* Math.random(): the value of draw number k of a call whose draws repeat the
\* pattern aleatorio (values in hundredths).
sorteo(aleatorio, k) == aleatorio[((k - 1) % Len(aleatorio)) + 1]

\* calcularProb11Plus.  muestras holds the random draws of the numSimulaciones
\* simulations as runs: veces simulations whose slot i draws sorteo(patron, i), in
\* hundredths.  The result is aciertos11Plus, the numerator of the estimate over
\* numSimulaciones.
aciertosDe(quiniela, partidos, patron) ==
    Cardinality({i \in DOMAIN quiniela :
        sorteo(patron, i) * partidos[i].den < probDe(partidos[i], quiniela[i]) * 100})

\* The simulation count with the bar at 10 hits (>= 10 for >= 11).
RECURSIVE aciertos11PlusDesdeDiez(_, _, _, _)
aciertos11PlusDesdeDiez(quiniela, partidos, muestras, r) ==
    IF r > Len(muestras) THEN 0
    ELSE (IF aciertosDe(quiniela, partidos, muestras[r].patron) >= 10
          THEN muestras[r].veces ELSE 0)
         + aciertos11PlusDesdeDiez(quiniela, partidos, muestras, r + 1)

RECURSIVE aciertos11PlusDesde(_, _, _, _)
aciertos11PlusDesde(quiniela, partidos, muestras, r) ==
    IF r > Len(muestras) THEN 0
    ELSE (IF aciertosDe(quiniela, partidos, muestras[r].patron) >= 11
          THEN muestras[r].veces ELSE 0)
         + aciertos11PlusDesde(quiniela, partidos, muestras, r + 1)

calcularProb11Plus(quiniela, partidos, muestras) ==
    aciertos11PlusDesde(quiniela, partidos, muestras, 1)

\* calcularDistribucion: the three counts over total.
calcularDistribucion(quiniela) ==
    [L |-> Cardinality({i \in DOMAIN quiniela : quiniela[i] = "L"}),
     E |-> Cardinality({i \in DOMAIN quiniela : quiniela[i] = "E"}),
     V |-> Cardinality({i \in DOMAIN quiniela : quiniela[i] = "V"}),
     total |-> Len(quiniela)]

\* The ticket object the generators build around an adjusted outcome list.
quinielaObj(id, tipo, resultados, par_id, partidos, muestras) ==
    [id |-> id,
     tipo |-> tipo,
     resultados |-> resultados,
     par_id |-> par_id,
     empates |-> contarEmpates(resultados),
     prob_11_plus |-> calcularProb11Plus(resultados, partidos, muestras),
     distribucion |-> calcularDistribucion(resultados)]

\* crearQuinielaBase from slot i on, with empatesActuales draws counted so far
\* (the counter is incremented in the TendenciaEmpate branch and again by the
\* test on resultado, as in the source).
RECURSIVE baseDesde(_, _, _)
baseDesde(partidos, i, empatesActuales) ==
    IF i > Len(partidos) THEN <<>>
    ELSE LET partido == partidos[i]
             forzado == /\ partido.clasificacion # "Ancla"
                        /\ partido.clasificacion = "TendenciaEmpate"
                        /\ empatesActuales < EMPATES_MAX
             resultado == IF forzado THEN "E" ELSE partido.resultadoSugerido
             trasRama == IF forzado THEN empatesActuales + 1 ELSE empatesActuales
             trasPrueba == IF resultado = "E" THEN trasRama + 1 ELSE trasRama
         IN  <<resultado>> \o baseDesde(partidos, i + 1, trasPrueba)

crearQuinielaBase(partidos) == baseDesde(partidos, 1, 0)

\* partidosClasificados.map((p, i) => ({...p, index: i})).filter(Divisor): the
\* slots of the Divisor matches, in order.
RECURSIVE indicesDivisor(_, _)
indicesDivisor(partidos, i) ==
    IF i > Len(partidos) THEN <<>>
    ELSE IF partidos[i].clasificacion = "Divisor"
         THEN <<i>> \o indicesDivisor(partidos, i + 1)
         ELSE indicesDivisor(partidos, i + 1)

\* partidosDivisor[parId % partidosDivisor.length]?.index || 0, as a slot (1-based).
partidoPrincipal(partidosDivisor, parId) ==
    IF Len(partidosDivisor) = 0 THEN 1
    ELSE partidosDivisor[(parId % Len(partidosDivisor)) + 1]

\* The two tickets of a pair before ajustarEmpates.  Slot i of pair parId reads
\* draw number parId * n + i when it draws at all.
parSinAjustar(partidos, partidosDivisor, parId, aleatorio) ==
    LET n == Len(partidos)
        principal == partidoPrincipal(partidosDivisor, parId)
        diverge(i) ==
            IF i = principal THEN TRUE
            ELSE IF partidos[i].clasificacion = "Ancla" THEN FALSE
            ELSE sorteo(aleatorio, parId * n + i) < 30
    IN  [A |-> [i \in 1..n |-> partidos[i].resultadoSugerido],
         B |-> [i \in 1..n |-> IF diverge(i)
                                THEN getResultadoAlternativo(partidos[i])
                                ELSE partidos[i].resultadoSugerido]]

crearParSatelites(partidos, partidosDivisor, parId, aleatorio, muestras) ==
    LET par == parSinAjustar(partidos, partidosDivisor, parId, aleatorio)
    IN  << quinielaObj(<<"Sat", parId * 2 + 1, "A">>, "Satelite",
                       ajustarEmpates(par.A, partidos), <<parId>>, partidos, muestras),
           quinielaObj(<<"Sat", parId * 2 + 1, "B">>, "Satelite",
                       ajustarEmpates(par.B, partidos), <<parId>>, partidos, muestras) >>

\* crearSateliteIndividual; its slot i reads draw number sateliteId * n + i.
crearSateliteIndividual(partidos, sateliteId, aleatorio, muestras) ==
    LET n == Len(partidos)
        base == crearQuinielaBase(partidos)
        variada == [i \in 1..n |->
                       IF /\ partidos[i].clasificacion # "Ancla"
                          /\ sorteo(aleatorio, sateliteId * n + i) < 40
                       THEN getResultadoAlternativo(partidos[i])
                       ELSE base[i]]
    IN  quinielaObj(<<"Sat", sateliteId + 1, "">>, "Satelite",
                    ajustarEmpates(variada, partidos), <<>>, partidos, muestras)

RECURSIVE paresDesde(_, _, _, _, _, _)
paresDesde(partidos, partidosDivisor, par, numPares, aleatorio, muestras) ==
    IF par >= numPares THEN <<>>
    ELSE crearParSatelites(partidos, partidosDivisor, par, aleatorio, muestras)
            \o paresDesde(partidos, partidosDivisor, par + 1, numPares, aleatorio, muestras)

\* The % of the source: the remainder has the sign of the dividend.
residuo(a, b) == IF a >= 0 THEN a % b ELSE -((-a) % b)

\* generateSatelliteQuinielas with the pair count rounded up.
generateSatelliteQuinielasParDeMas(partidos, core, numSatelites, aleatorio, muestras) ==
    LET numPares == (numSatelites + 1) \div 2
        partidosDivisor == indicesDivisor(partidos, 1)
        satelites == paresDesde(partidos, partidosDivisor, 0, numPares, aleatorio, muestras)
    IN  IF residuo(numSatelites, 2) = 1
        THEN Append(satelites,
                    crearSateliteIndividual(partidos, Len(satelites), aleatorio, muestras))
        ELSE satelites

\* quinielasCore is a parameter the method never reads.  Math.floor(numSatelites
\* / 2) is \div, which rounds down for a negative count too.
generateSatelliteQuinielas(partidos, core, numSatelites, aleatorio, muestras) ==
    LET numPares == numSatelites \div 2
        partidosDivisor == indicesDivisor(partidos, 1)
        satelites == paresDesde(partidos, partidosDivisor, 0, numPares, aleatorio, muestras)
    IN  IF residuo(numSatelites, 2) = 1
        THEN Append(satelites,
                    crearSateliteIndividual(partidos, Len(satelites), aleatorio, muestras))
        ELSE satelites

\* shuffleArray (Fisher-Yates) from index i (0-based) down; step i reads draw k
\* and swaps positions i and Math.floor(Math.random() * (i + 1)).
RECURSIVE shuffleDesde(_, _, _, _)
shuffleDesde(array, i, aleatorio, k) ==
    IF i < 1 THEN array
    ELSE LET j == (sorteo(aleatorio, k) * (i + 1)) \div 100
             cambiado == [array EXCEPT ![i + 1] = array[j + 1], ![j + 1] = array[i + 1]]
         IN  shuffleDesde(cambiado, i - 1, aleatorio, k + 1)

shuffleArray(array, aleatorio, k) == shuffleDesde(array, Len(array) - 1, aleatorio, k)

RECURSIVE indicesNoAncla(_, _)
indicesNoAncla(partidos, i) ==
    IF i > Len(partidos) THEN <<>>
    ELSE IF partidos[i].clasificacion # "Ancla"
         THEN <<i>> \o indicesNoAncla(partidos, i + 1)
         ELSE indicesNoAncla(partidos, i + 1)

\* aplicarVariacion with one change fewer (1 + variacion for 2 + variacion).
aplicarVariacionUnoMenos(quiniela, partidos, variacion, aleatorio) ==
    LET candidatos == indicesNoAncla(partidos, 1)
        numCambios == Min2(1 + variacion, Len(candidatos))
        barajados == shuffleArray(candidatos, aleatorio, variacion * Len(partidos) + 1)
        indicesCambio == {barajados[k] : k \in 1..numCambios}
    IN  [i \in DOMAIN quiniela |->
            IF i \in indicesCambio
            THEN getResultadoAlternativo(partidos[i])
            ELSE quiniela[i]]

\* aplicarVariacion; the shuffle of variant number variacion reads the draws
\* from number variacion * n + 1 on.
aplicarVariacion(quiniela, partidos, variacion, aleatorio) ==
    LET candidatos == indicesNoAncla(partidos, 1)
        numCambios == Min2(2 + variacion, Len(candidatos))
        barajados == shuffleArray(candidatos, aleatorio, variacion * Len(partidos) + 1)
        indicesCambio == {barajados[k] : k \in 1..numCambios}
    IN  [i \in DOMAIN quiniela |->
            IF i \in indicesCambio
            THEN getResultadoAlternativo(partidos[i])
            ELSE quiniela[i]]

\* generateCoreQuinielas with its loop one iteration short.
generateCoreQuinielasTres(partidos, aleatorio, muestras) ==
    [k \in 1..3 |->
        LET i == k - 1
            base == crearQuinielaBase(partidos)
            variada == IF i > 0 THEN aplicarVariacion(base, partidos, i, aleatorio)
                       ELSE base
        IN  quinielaObj(<<"Core", i + 1, "">>, "Core",
                        ajustarEmpates(variada, partidos), <<>>, partidos, muestras)]

generateCoreQuinielas(partidos, aleatorio, muestras) ==
    [k \in 1..4 |->
        LET i == k - 1
            base == crearQuinielaBase(partidos)
            variada == IF i > 0 THEN aplicarVariacion(base, partidos, i, aleatorio)
                       ELSE base
        IN  quinielaObj(<<"Core", i + 1, "">>, "Core",
                        ajustarEmpates(variada, partidos), <<>>, partidos, muestras)]

(***************************************************************************)
(* PortfolioValidator.  A message is a record of what its text states; the *)
(* report is [es_valido, warnings, errores, metricas], metricas a function *)
(* from the metric names to their values.  Each check returns the warnings *)
(* and errors it pushes and the metrics it sets, and validatePortfolio     *)
(* appends them in the order of its calls.                                 *)
(***************************************************************************)
conteoGlobal(quinielas, r) ==
    LET RECURSIVE suma(_)
        suma(k) == IF k > Len(quinielas) THEN 0
                   ELSE Cardinality({i \in DOMAIN quinielas[k].resultados :
                                        quinielas[k].resultados[i] = r}) + suma(k + 1)
    IN  suma(1)

rangoHistorico(r) ==
    IF r = "L" THEN <<35, 41>> ELSE IF r = "E" THEN <<25, 33>> ELSE <<30, 36>>

\* diferencia > 0.03 for proporcion = conteo/total and a limit of limite/100, where
\* diferencia100 is 100 * total * (the exact difference).  The source computes in
\* binary64: away from the boundary the result is that of the exact comparison;
\* on it (a difference of exactly 0.03) the rounding of the literals decides,
\* and 0.44 - 0.41 and 0.39 - 0.36 evaluate to 0.030000000000000027 > 0.03 while
\* 0.36 - 0.33, 0.35 - 0.32, 0.30 - 0.27 and 0.25 - 0.22 evaluate to
\* 0.02999999999999997.
diferenciaExcede(diferencia100, total, limite, porEncima) ==
    IF diferencia100 # 3 * total THEN diferencia100 > 3 * total
    ELSE porEncima /\ limite \in {41, 36}

\* The finding of validarDistribucionGlobal for outcome r: <<>> or one message.
hallazgoDistribucion(quinielas, r) ==
    LET totalPredicciones == Len(quinielas) * 14
        conteo == conteoGlobal(quinielas, r)
        minVal == rangoHistorico(r)[1]
        maxVal == rangoHistorico(r)[2]
    IN  IF conteo * 100 < minVal * totalPredicciones
        THEN IF diferenciaExcede(minVal * totalPredicciones - conteo * 100,
                                 totalPredicciones, minVal, FALSE)
             THEN [nivel |-> "error", msg |-> "distribucion", resultado |-> r,
                   caso |-> "muy por debajo del minimo"]
             ELSE [nivel |-> "warning", msg |-> "distribucion", resultado |-> r,
                   caso |-> "ligeramente bajo"]
        ELSE IF conteo * 100 > maxVal * totalPredicciones
        THEN IF diferenciaExcede(conteo * 100 - maxVal * totalPredicciones,
                                 totalPredicciones, maxVal, TRUE)
             THEN [nivel |-> "error", msg |-> "distribucion", resultado |-> r,
                   caso |-> "muy por encima del maximo"]
             ELSE [nivel |-> "warning", msg |-> "distribucion", resultado |-> r,
                   caso |-> "ligeramente alto"]
        ELSE [nivel |-> "ninguno", msg |-> "distribucion", resultado |-> r,
              caso |-> "en rango"]

deNivel(hallazgos, nivel) == SelectSeq(hallazgos, LAMBDA h : h.nivel = nivel)

validarDistribucionGlobal(quinielas) ==
    LET hallazgos == << hallazgoDistribucion(quinielas, "L"),
                        hallazgoDistribucion(quinielas, "E"),
                        hallazgoDistribucion(quinielas, "V") >>
    IN  [warnings |-> deNivel(hallazgos, "warning"),
         errores |-> deNivel(hallazgos, "error"),
         metricas |-> "distribucion_global" :>
                         [L |-> conteoGlobal(quinielas, "L"),
                          E |-> conteoGlobal(quinielas, "E"),
                          V |-> conteoGlobal(quinielas, "V"),
                          total |-> Len(quinielas) * 14]]

\* quinielasProblematicas of validarEmpatesIndividuales, from ticket i on.
RECURSIVE quinielasProblematicas(_, _)
quinielasProblematicas(quinielas, i) ==
    IF i > Len(quinielas) THEN <<>>
    ELSE LET empates == contarEmpates(quinielas[i].resultados)
             resto == quinielasProblematicas(quinielas, i + 1)
         IN  IF empates < EMPATES_MIN
             THEN <<[nivel |-> "warning", msg |-> "empates", quiniela |-> i,
                     empates |-> empates, limite |-> "minimo"]>> \o resto
             ELSE IF empates > EMPATES_MAX
             THEN <<[nivel |-> "warning", msg |-> "empates", quiniela |-> i,
                     empates |-> empates, limite |-> "maximo"]>> \o resto
             ELSE resto

RECURSIVE sumaDe(_)
sumaDe(numeros) == IF numeros = <<>> THEN 0 ELSE Head(numeros) + sumaDe(Tail(numeros))

minimoDe(numeros) ==
    CHOOSE m \in {numeros[i] : i \in DOMAIN numeros} :
        \A i \in DOMAIN numeros : m <= numeros[i]

maximoDe(numeros) ==
    CHOOSE m \in {numeros[i] : i \in DOMAIN numeros} :
        \A i \in DOMAIN numeros : m >= numeros[i]

primeros(s, n) == SubSeq(s, 1, Min2(n, Len(s)))

\* validarEmpatesIndividuales with the aggregation reached at 10% (>= for >).
validarEmpatesIndividualesDesdeDiez(quinielas) ==
    LET empatesPorQuiniela ==
            [i \in 1..Len(quinielas) |-> contarEmpates(quinielas[i].resultados)]
        problematicas == quinielasProblematicas(quinielas, 1)
        muchas == Len(problematicas) * 10 >= Len(quinielas)
    IN  [warnings |-> IF Len(problematicas) > 0 /\ ~muchas THEN problematicas ELSE <<>>,
         errores |-> IF Len(problematicas) > 0 /\ muchas
                     THEN <<[nivel |-> "error", msg |-> "muchas fuera del rango de empates",
                             detalle |-> primeros(problematicas, 5)]>>
                     ELSE <<>>,
         metricas |-> ("empates_promedio" :>
                          [suma |-> sumaDe(empatesPorQuiniela), n |-> Len(quinielas)])
                      @@ ("empates_rango" :>
                          <<minimoDe(empatesPorQuiniela), maximoDe(empatesPorQuiniela)>>)]

validarEmpatesIndividuales(quinielas) ==
    LET empatesPorQuiniela ==
            [i \in 1..Len(quinielas) |-> contarEmpates(quinielas[i].resultados)]
        problematicas == quinielasProblematicas(quinielas, 1)
        muchas == Len(problematicas) * 10 > Len(quinielas)
    IN  [warnings |-> IF Len(problematicas) > 0 /\ ~muchas THEN problematicas ELSE <<>>,
         errores |-> IF Len(problematicas) > 0 /\ muchas
                     THEN <<[nivel |-> "error", msg |-> "muchas fuera del rango de empates",
                             detalle |-> primeros(problematicas, 5)]>>
                     ELSE <<>>,
         metricas |-> ("empates_promedio" :>
                          [suma |-> sumaDe(empatesPorQuiniela), n |-> Len(quinielas)])
                      @@ ("empates_rango" :>
                          <<minimoDe(empatesPorQuiniela), maximoDe(empatesPorQuiniela)>>)]

\* conteos of validarConcentracion for slot partido (1-based).
conteoPartido(quinielas, partido, r) ==
    Cardinality({k \in DOMAIN quinielas :
        /\ partido <= Len(quinielas[k].resultados)
        /\ quinielas[k].resultados[partido] = r})

\* limiteAplicable with the stricter limit kept for one slot more.
limiteAplicableCuatro(partido) ==
    IF partido - 1 < 4 THEN CONCENTRACION_MAX_INICIAL ELSE CONCENTRACION_MAX_GENERAL

limiteAplicable(partido) ==
    IF partido - 1 < 3 THEN CONCENTRACION_MAX_INICIAL ELSE CONCENTRACION_MAX_GENERAL

\* concentracionesProblematicas of validarConcentracion, from slot partido on.
RECURSIVE concentracionesProblematicas(_, _)
concentracionesProblematicas(quinielas, partido) ==
    IF partido > 14 THEN <<>>
    ELSE LET cL == conteoPartido(quinielas, partido, "L")
             cE == conteoPartido(quinielas, partido, "E")
             cV == conteoPartido(quinielas, partido, "V")
             maximo == Max2(cL, Max2(cE, cV))
             a == IF cL > cE THEN "L" ELSE "E"
             ca == IF cL > cE THEN cL ELSE cE
             resultadoConcentrado == IF ca > cV THEN a ELSE "V"
             resto == concentracionesProblematicas(quinielas, partido + 1)
         IN  IF maximo * 100 > limiteAplicable(partido) * Len(quinielas)
             THEN <<[nivel |-> "warning", msg |-> "concentracion", partido |-> partido,
                     conteo |-> maximo, resultado |-> resultadoConcentrado,
                     limite |-> limiteAplicable(partido)]>> \o resto
             ELSE resto

\* validarConcentracion with its slot loop starting one slot late.
validarConcentracionDesdeDos(quinielas) ==
    LET problematicas == IF Len(quinielas) = 0 THEN <<>>
                         ELSE concentracionesProblematicas(quinielas, 2)
    IN  [warnings |-> IF Len(problematicas) > 0 /\ Len(problematicas) <= 3
                      THEN problematicas ELSE <<>>,
         errores |-> IF Len(problematicas) > 3
                     THEN <<[nivel |-> "error", msg |-> "multiples violaciones de concentracion",
                             detalle |-> primeros(problematicas, 3)]>>
                     ELSE <<>>,
         metricas |-> <<>>]

validarConcentracion(quinielas) ==
    LET problematicas == IF Len(quinielas) = 0 THEN <<>>
                         ELSE concentracionesProblematicas(quinielas, 1)
    IN  [warnings |-> IF Len(problematicas) > 0 /\ Len(problematicas) <= 3
                      THEN problematicas ELSE <<>>,
         errores |-> IF Len(problematicas) > 3
                     THEN <<[nivel |-> "error", msg |-> "multiples violaciones de concentracion",
                             detalle |-> primeros(problematicas, 3)]>>
                     ELSE <<>>,
         metricas |-> <<>>]

\* calcularMetricas.  prob_11_plus values are numerators over numSimulaciones.  The
\* portfolio probability 1 - (1 - p1)...(1 - pn) is held as the list of the
\* factors' numerators numSimulaciones - pi, and the efficiency as that probability
\* with the cost it is divided by.
calcularMetricas(quinielas) ==
    IF Len(quinielas) = 0 THEN <<>>
    ELSE LET probs11Plus == [i \in 1..Len(quinielas) |-> quinielas[i].prob_11_plus]
             complementos == [i \in 1..Len(quinielas) |-> numSimulaciones - probs11Plus[i]]
             costoTotal == Len(quinielas) * 15
         IN  ("prob_11_plus_promedio" :> [suma |-> sumaDe(probs11Plus), n |-> Len(quinielas)])
             @@ ("prob_11_plus_max" :> maximoDe(probs11Plus))
             @@ ("prob_11_plus_min" :> minimoDe(probs11Plus))
             @@ ("prob_portafolio_11_plus" :> [unoMenosProducto |-> complementos])
             @@ ("costo_total" :> costoTotal)
             @@ ("eficiencia" :> [unoMenosProducto |-> complementos, costo |-> costoTotal])

\* The report after the three checks and the metrics, before the validity rule.
trasVerificaciones(quinielas) ==
    LET d == validarDistribucionGlobal(quinielas)
        e == validarEmpatesIndividuales(quinielas)
        c == validarConcentracion(quinielas)
    IN  [es_valido |-> TRUE,
         warnings |-> d.warnings \o e.warnings \o c.warnings,
         errores |-> d.errores \o e.errores \o c.errores,
         metricas |-> d.metricas @@ e.metricas @@ calcularMetricas(quinielas)]

\* validatePortfolio with the warning budget off by one (>= 3 for > 3).
validatePortfolioPresupuesto(nulo, quinielas) ==
    IF nulo \/ Len(quinielas) = 0
    THEN [es_valido |-> FALSE,
          warnings |-> <<>>,
          errores |-> <<[nivel |-> "error", msg |-> "No hay quinielas en el portafolio"]>>,
          metricas |-> <<>>]
    ELSE LET v == trasVerificaciones(quinielas)
         IN  IF Len(v.errores) > 0
             THEN [v EXCEPT !.es_valido = FALSE]
             ELSE IF Len(v.warnings) >= 3
             THEN [v EXCEPT !.es_valido = FALSE,
                            !.errores = Append(v.errores,
                                [nivel |-> "error",
                                 msg |-> "Demasiadas advertencias en la validacion"])]
             ELSE v

\* validatePortfolio without the return of its empty-list branch: the checks run
\* on the empty list, find nothing and set their metrics.
validatePortfolioSinRetorno(nulo, quinielas) ==
    IF nulo \/ Len(quinielas) = 0
    THEN [es_valido |-> FALSE,
          warnings |-> <<>>,
          errores |-> <<[nivel |-> "error", msg |-> "No hay quinielas en el portafolio"]>>,
          metricas |-> "distribucion_global" :> [L |-> 0, E |-> 0, V |-> 0, total |-> 0]]
    ELSE LET v == trasVerificaciones(quinielas)
         IN  IF Len(v.errores) > 0
             THEN [v EXCEPT !.es_valido = FALSE]
             ELSE IF Len(v.warnings) > 3
             THEN [v EXCEPT !.es_valido = FALSE,
                            !.errores = Append(v.errores,
                                [nivel |-> "error",
                                 msg |-> "Demasiadas advertencias en la validacion"])]
             ELSE v

\* validatePortfolio; nulo says that the argument is null or undefined.
validatePortfolio(nulo, quinielas) ==
    IF nulo \/ Len(quinielas) = 0
    THEN [es_valido |-> FALSE,
          warnings |-> <<>>,
          errores |-> <<[nivel |-> "error", msg |-> "No hay quinielas en el portafolio"]>>,
          metricas |-> <<>>]
    ELSE LET v == trasVerificaciones(quinielas)
         IN  IF Len(v.errores) > 0
             THEN [v EXCEPT !.es_valido = FALSE]
             ELSE IF Len(v.warnings) > 3
             THEN [v EXCEPT !.es_valido = FALSE,
                            !.errores = Append(v.errores,
                                [nivel |-> "error",
                                 msg |-> "Demasiadas advertencias en la validacion"])]
             ELSE v

(***************************************************************************)
(* Inputs: calibrated matches and the lists the methods are called with.   *)
(***************************************************************************)
\* A calibrated match with probabilities l/Escala, e/Escala and the rest.
Calibrado(l, e) ==
    [prob_local |-> l, prob_empate |-> e, prob_visitante |-> Escala - l - e,
     den |-> Escala]

\* Calibrated match lists (each a cycle of matches) the calls draw from:
\* draw-leaning matches only; a mix of all four categories; no Divisor match;
\* mostly Divisor matches.
CiclosPartidos ==
    << << Calibrado(6, 8), Calibrado(7, 7), Calibrado(5, 8) >>,
       << Calibrado(13, 5), Calibrado(10, 6), Calibrado(6, 8), Calibrado(8, 5),
          Calibrado(9, 4), Calibrado(7, 6), Calibrado(14, 3) >>,
       << Calibrado(13, 5), Calibrado(6, 8), Calibrado(14, 3), Calibrado(7, 6),
          Calibrado(2, 13), Calibrado(7, 7), Calibrado(3, 4) >>,
       << Calibrado(10, 6), Calibrado(8, 5), Calibrado(9, 4), Calibrado(5, 6),
          Calibrado(13, 5), Calibrado(6, 8), Calibrado(2, 13) >> >>

listaClasificada(c, n) ==
    [i \in 1..n |->
        clasificado(i - 1, "local", "visitante",
                    CiclosPartidos[c][((i - 1) % Len(CiclosPartidos[c])) + 1])]

ListasClasificadas(n) == {listaClasificada(c, n) : c \in DOMAIN CiclosPartidos}

Quinielas(n) == [1..n -> Resultados]

(***************************************************************************)
(* The page's state when no handler has run.                               *)
(***************************************************************************)
PaginaInicial ==
    /\ partidosRegular = <<>>
    /\ partidosClasificados = <<>>
    /\ quinielasCore = <<>>
    /\ quinielasSatelites = <<>>
    /\ quinielasFinales = <<>>
    /\ validacion = <<>>
    /\ numQuinielas = 20

(***************************************************************************)
(* SpecAjuste: ajustarEmpates called on every ticket of NumPartidos slots  *)
(* with each of the classified lists.                                      *)
(***************************************************************************)
InitAjuste ==
    /\ PaginaInicial
    /\ llamada \in {[quiniela |-> q, partidosClasificados |-> p] :
                        q \in Quinielas(NumPartidos), p \in ListasClasificadas(NumPartidos)}
    /\ retorno = <<>>

LlamarAjustarEmpates ==
    /\ retorno = <<>>
    /\ retorno' = <<ajustarEmpates(llamada.quiniela, llamada.partidosClasificados)>>
    /\ UNCHANGED <<llamada, paginaVars>>

SpecAjuste == InitAjuste /\ [][LlamarAjustarEmpates]_vars

(***************************************************************************)
(* Claims about ajustarEmpates (SpecAjuste).                               *)
(***************************************************************************)
EnRango(quiniela) ==
    /\ contarEmpates(quiniela) >= EMPATES_MIN
    /\ contarEmpates(quiniela) <= EMPATES_MAX

\* The slots the add-path may convert: not a draw, and the match's prob_empate > 0.20.
SlotsCandidatos(quiniela, partidos) ==
    {i \in DOMAIN quiniela :
        quiniela[i] # "E" /\ partidos[i].prob_empate * 100 > 20 * partidos[i].den}

\* C1: whenever the ticket given to ajustarEmpates has more than EMPATES_MAX
\* draws, the ticket it returns has a draw count inside [EMPATES_MIN, EMPATES_MAX].
C1_RemueveExceso ==
    (retorno # <<>> /\ contarEmpates(llamada.quiniela) > EMPATES_MAX)
        => EnRango(retorno[1])

\* C2: whenever the ticket given to ajustarEmpates has fewer than EMPATES_MIN
\* draws and at least EMPATES_MIN candidate slots exist, the ticket it returns
\* has a draw count inside [EMPATES_MIN, EMPATES_MAX].
C2_AgregaEmpates ==
    (/\ retorno # <<>>
     /\ contarEmpates(llamada.quiniela) < EMPATES_MIN
     /\ Cardinality(SlotsCandidatos(llamada.quiniela, llamada.partidosClasificados))
            >= EMPATES_MIN)
        => EnRango(retorno[1])

\* C2's case: a ticket with fewer than EMPATES_MIN draws and enough candidates
\* was adjusted, and the adjustment changed it.
C2_Witness ==
    /\ retorno # <<>>
    /\ contarEmpates(llamada.quiniela) < EMPATES_MIN
    /\ Cardinality(SlotsCandidatos(llamada.quiniela, llamada.partidosClasificados))
            >= EMPATES_MIN
    /\ retorno[1] # llamada.quiniela
    /\ EnRango(retorno[1])

(***************************************************************************)
(* SpecSatelites: generateSatelliteQuinielas called with each classified   *)
(* list, each count up to MaxSatelites and each pattern of random draws.   *)
(***************************************************************************)
\* Math.random() values, in hundredths: one below 0.3, one in [0.3, 0.4), one above.
ValoresAleatorios == {10, 35, 70}

Patrones == [1..LargoPatron -> ValoresAleatorios]

\* Draws of the Monte Carlo simulations: every simulation draws 0.10 at every
\* slot; or 400 simulations draw 0.10 and 600 draw 0.70, 0.35, 0.10 in turn.
Muestras ==
    { << [veces |-> numSimulaciones, patron |-> <<10>>] >>,
      << [veces |-> 400, patron |-> <<10>>],
         [veces |-> numSimulaciones - 400, patron |-> <<70, 35, 10>>] >> }

InitSatelites ==
    /\ PaginaInicial
    /\ llamada \in {[partidosClasificados |-> p, numSatelites |-> s, aleatorio |-> a,
                      muestras |-> m] :
                        p \in ListasClasificadas(NumPartidos),
                        s \in (-MaxNegativos)..MaxSatelites,
                        a \in Patrones,
                        m \in Muestras}
    /\ retorno = <<>>

LlamarGenerateSatellite ==
    /\ retorno = <<>>
    /\ retorno' = <<generateSatelliteQuinielas(llamada.partidosClasificados, <<>>,
                                               llamada.numSatelites, llamada.aleatorio,
                                               llamada.muestras)>>
    /\ UNCHANGED <<llamada, paginaVars>>

SpecSatelites == InitSatelites /\ [][LlamarGenerateSatellite]_vars

(***************************************************************************)
(* Claims about the satellite pairs (SpecSatelites).                       *)
(***************************************************************************)
\* The pairs of a returned list: pair k (0-based) is tickets 2k+1 and 2k+2.
ParesDe(satelites) == 0..((Len(satelites) \div 2) - 1)

PivoteDe(partidos, par) ==
    LET divisores == {i \in DOMAIN partidos : partidos[i].clasificacion = "Divisor"}
        orden == CHOOSE f \in [1..Cardinality(divisores) -> divisores] :
                    \A a, b \in 1..Cardinality(divisores) : a < b => f[a] < f[b]
    IN  IF divisores = {} THEN 1 ELSE orden[(par % Cardinality(divisores)) + 1]

\* C3: in every pair (A, B) returned by generateSatelliteQuinielas the outcome
\* at the pair's pivot slot differs between A and B.
C3_PivoteDifiere ==
    retorno # <<>> =>
        \A par \in ParesDe(retorno[1]) :
            LET pivote == PivoteDe(llamada.partidosClasificados, par)
            IN  retorno[1][2 * par + 1].resultados[pivote]
                    # retorno[1][2 * par + 2].resultados[pivote]

\* C4: in every pair (A, B) returned by generateSatelliteQuinielas the two
\* tickets hold the same outcome at every slot whose match is Ancla.
C4_AnclasIguales ==
    retorno # <<>> =>
        \A par \in ParesDe(retorno[1]) :
            \A i \in DOMAIN llamada.partidosClasificados :
                llamada.partidosClasificados[i].clasificacion = "Ancla" =>
                    retorno[1][2 * par + 1].resultados[i]
                        = retorno[1][2 * par + 2].resultados[i]

(***************************************************************************)
(* SpecValidar: validatePortfolio called without a list, and with every    *)
(* portfolio that holds up to MaxCopias copies of each ticket of a palette.*)
(***************************************************************************)
Boleto(texto, prob) ==
    [resultados |-> [i \in 1..14 |-> texto[i]], prob_11_plus |-> prob]

Paleta ==
    << Boleto(<<"L","E","V","E","V","E","L","V","V","V","E","V","L","L">>, 12),
       Boleto(<<"L","L","E","L","L","L","V","E","E","E","V","L","E","E">>, 30),
       Boleto(<<"E","V","L","V","E","V","E","L","L","L","L","E","V","V">>, 7),
       Boleto(<<"L","L","L","V","E","V","E","L","L","L","L","L","L","L">>, 0) >>

\* copias[t] copies of palette ticket t, for t = desde, desde + 1, ...
RECURSIVE portafolioDe(_, _)
portafolioDe(copias, desde) ==
    IF desde > Len(Paleta) THEN <<>>
    ELSE [i \in 1..copias[desde] |-> Paleta[desde]] \o portafolioDe(copias, desde + 1)

InitValidar ==
    /\ PaginaInicial
    /\ llamada \in
          {[nulo |-> FALSE, quinielas |-> portafolioDe(copias, 1)] :
                copias \in [1..Len(Paleta) -> 0..MaxCopias]}
          \cup {[nulo |-> TRUE, quinielas |-> <<>>]}
    /\ retorno = <<>>

LlamarValidatePortfolio ==
    /\ retorno = <<>>
    /\ retorno' = <<validatePortfolio(llamada.nulo, llamada.quinielas)>>
    /\ UNCHANGED <<llamada, paginaVars>>

SpecValidar == InitValidar /\ [][LlamarValidatePortfolio]_vars

(***************************************************************************)
(* SpecPagina: the Home component.  Its variables are the useState values  *)
(* the pipeline reads and writes; each handler is one action (the handlers *)
(* hold no await between their reads and their writes).                    *)
(***************************************************************************)
\* A raw match as createSampleData and procesarArchivoCSV build it.
partidoCrudo(pl, pe, pv, es_final, forma, lesiones) ==
    [local |-> "local", visitante |-> "visitante",
     prob_local |-> pl, prob_empate |-> pe, prob_visitante |-> pv, den |-> pl + pe + pv,
     es_final |-> es_final, forma_diferencia |-> forma, lesiones_impact |-> lesiones]

\* One outcome of createSampleData for the 14 regular matches: rand is a multiple
\* of 1/6 (prob_local = 0.25 + 0.3 rand and prob_empate = 0.2 + 0.2 rand, over 60),
\* the matches at indexes 0 and 2 are finals, forma_diferencia is in -2..1 and
\* lesiones_impact in -1..0.
createSampleData ==
    << partidoCrudo(24, 18, 18, TRUE, 0, 0),   partidoCrudo(27, 20, 13, FALSE, 0, 0),
       partidoCrudo(18, 14, 28, TRUE, 0, -1),  partidoCrudo(30, 22, 8, FALSE, 0, 0),
       partidoCrudo(21, 16, 23, FALSE, -2, 0), partidoCrudo(24, 18, 18, FALSE, 0, 0),
       partidoCrudo(15, 12, 33, FALSE, 0, 0),  partidoCrudo(27, 20, 13, FALSE, 0, -1),
       partidoCrudo(30, 22, 8, FALSE, -2, -1), partidoCrudo(21, 16, 23, FALSE, 0, 0),
       partidoCrudo(18, 14, 28, FALSE, 0, 0),  partidoCrudo(24, 18, 18, FALSE, 0, -1),
       partidoCrudo(27, 20, 13, FALSE, 0, 0),  partidoCrudo(30, 22, 8, FALSE, 0, 0) >>

\* A data line of a CSV file after split(','): campos values, of which the
\* third to fifth parse to the numbers p2, p3, p4.
fila(campos, p2, p3, p4, es_final, forma, lesiones) ==
    [campos |-> campos, p2 |-> p2, p3 |-> p3, p4 |-> p4,
     es_final |-> es_final, forma |-> forma, lesiones |-> lesiones]

\* The files the user picks: one of 3 data lines, and one of 16 data lines of
\* which one has fewer than 5 values.
ArchivosCSV ==
    { << fila(8, 65, 25, 10, FALSE, 0, 0), fila(8, 50, 30, 20, FALSE, 0, 0),
         fila(8, 30, 40, 30, FALSE, 0, 0) >>,
      << fila(8, 65, 25, 10, FALSE, 0, 0), fila(8, 50, 30, 20, FALSE, 0, 0),
         fila(8, 30, 40, 30, FALSE, 0, 0), fila(4, 0, 0, 0, FALSE, 0, 0),
         fila(8, 40, 25, 35, FALSE, 0, 0),
         fila(8, 45, 20, 35, TRUE, 0, 0),  fila(8, 35, 30, 35, FALSE, 0, 0),
         fila(8, 70, 15, 15, FALSE, 0, 0), fila(8, 13, 5, 2, FALSE, 0, 0),
         fila(8, 10, 6, 4, FALSE, 2, -1),  fila(8, 6, 8, 6, FALSE, 0, 0),
         fila(8, 8, 5, 7, FALSE, 0, 0),    fila(8, 9, 4, 7, FALSE, 0, 0),
         fila(8, 7, 6, 7, FALSE, 0, 0),    fila(8, 14, 3, 3, FALSE, 0, 0),
         fila(8, 2, 13, 5, FALSE, 0, 0) >> }

\* The loop of reader.onload over the data lines from line i on.
RECURSIVE partidosDeFilas(_, _)
partidosDeFilas(filas, i) ==
    IF i > Len(filas) THEN <<>>
    ELSE IF filas[i].campos >= 5
         THEN <<partidoCrudo(filas[i].p2, filas[i].p3, filas[i].p4, filas[i].es_final,
                             filas[i].forma, filas[i].lesiones)>>
                 \o partidosDeFilas(filas, i + 1)
         ELSE partidosDeFilas(filas, i + 1)

\* The Math.random() values of a handler run: the draws of the generator and
\* the draws of its Monte Carlo simulations (400 simulations draw 0.10 at every
\* slot, the others 0.70, 0.35, 0.10 in turn).
Fuentes ==
    { [aleatorio |-> <<10, 70, 35>>,
       muestras |-> << [veces |-> 400, patron |-> <<10>>],
                       [veces |-> numSimulaciones - 400, patron |-> <<70, 35, 10>>] >>] }

InitPagina ==
    /\ PaginaInicial
    /\ llamada = <<>>
    /\ retorno = <<>>

cargarDatosMuestra ==
    /\ partidosRegular' = createSampleData
    /\ UNCHANGED <<partidosClasificados, quinielasCore, quinielasSatelites,
                   quinielasFinales, validacion, numQuinielas, llamada, retorno>>

\* procesarArchivoCSV(file, 'regular'), at the load of the file.
procesarArchivoCSV ==
    \E filas \in ArchivosCSV :
        /\ partidosRegular' = primeros(partidosDeFilas(filas, 1), 14)
        /\ UNCHANGED <<partidosClasificados, quinielasCore, quinielasSatelites,
                       quinielasFinales, validacion, numQuinielas, llamada, retorno>>

\* clasificarPartidos without its test of partidosRegular.length.
clasificarPartidosSinGuarda ==
    /\ partidosClasificados' = classifyMatches(partidosRegular)
    /\ UNCHANGED <<partidosRegular, quinielasCore, quinielasSatelites,
                   quinielasFinales, validacion, numQuinielas, llamada, retorno>>

clasificarPartidos ==
    \/ /\ Len(partidosRegular) < 14
       /\ UNCHANGED vars
    \/ /\ Len(partidosRegular) >= 14
       /\ partidosClasificados' = classifyMatches(partidosRegular)
       /\ UNCHANGED <<partidosRegular, quinielasCore, quinielasSatelites,
                      quinielasFinales, validacion, numQuinielas, llamada, retorno>>

generarQuinielasCore ==
    \/ /\ Len(partidosClasificados) = 0
       /\ UNCHANGED vars
    \/ /\ Len(partidosClasificados) # 0
       /\ \E f \in Fuentes :
             quinielasCore' = generateCoreQuinielas(partidosClasificados, f.aleatorio,
                                                    f.muestras)
       /\ UNCHANGED <<partidosRegular, partidosClasificados, quinielasSatelites,
                      quinielasFinales, validacion, numQuinielas, llamada, retorno>>

generarQuinielasSatelites ==
    \/ /\ Len(quinielasCore) = 0
       /\ UNCHANGED vars
    \/ /\ Len(quinielasCore) # 0
       /\ \E f \in Fuentes :
             LET numSatelites == numQuinielas - 4
             IN  quinielasSatelites' =
                     generateSatelliteQuinielas(partidosClasificados, quinielasCore,
                                                numSatelites, f.aleatorio, f.muestras)
       /\ UNCHANGED <<partidosRegular, partidosClasificados, quinielasCore,
                      quinielasFinales, validacion, numQuinielas, llamada, retorno>>

\* validarPortafolio without its test of the two ticket lists.
validarPortafolioSinGuarda ==
    /\ LET todasQuinielas == quinielasCore \o quinielasSatelites
       IN  /\ quinielasFinales' = todasQuinielas
           /\ validacion' = <<validatePortfolio(FALSE, todasQuinielas)>>
    /\ UNCHANGED <<partidosRegular, partidosClasificados, quinielasCore,
                   quinielasSatelites, numQuinielas, llamada, retorno>>

validarPortafolio ==
    \/ /\ (Len(quinielasCore) = 0 \/ Len(quinielasSatelites) = 0)
       /\ UNCHANGED vars
    \/ /\ Len(quinielasCore) # 0
       /\ Len(quinielasSatelites) # 0
       /\ LET todasQuinielas == quinielasCore \o quinielasSatelites
          IN  /\ quinielasFinales' = todasQuinielas
              /\ validacion' = <<validatePortfolio(FALSE, todasQuinielas)>>
       /\ UNCHANGED <<partidosRegular, partidosClasificados, quinielasCore,
                      quinielasSatelites, numQuinielas, llamada, retorno>>

\* The numQuinielas slider of renderConfiguracion (min 5, max 40, step 1).
setConfigNumQuinielas ==
    \E valor \in 5..40 :
        /\ (valor <= MaxNumQuinielas \/ valor = 20)
        /\ numQuinielas' = valor
        /\ UNCHANGED <<partidosRegular, partidosClasificados, quinielasCore,
                       quinielasSatelites, quinielasFinales, validacion, llamada, retorno>>

NextPagina ==
    \/ cargarDatosMuestra
    \/ procesarArchivoCSV
    \/ clasificarPartidos
    \/ generarQuinielasCore
    \/ generarQuinielasSatelites
    \/ validarPortafolio
    \/ setConfigNumQuinielas

SpecPagina == InitPagina /\ [][NextPagina]_vars

\* C5: in every reachable state of the page, whenever a final portfolio exists
\* its size equals the currently configured numQuinielas.
C5_TamanoDelPortafolio ==
    Len(quinielasFinales) > 0 => Len(quinielasFinales) = numQuinielas

(***************************************************************************)
(* Claims about validatePortfolio (SpecValidar).                           *)
(***************************************************************************)
ConLista == retorno # <<>> /\ ~llamada.nulo /\ Len(llamada.quinielas) > 0

\* What the three checks pushed for the portfolio of the call.
AdvertenciasDeLasVerificaciones ==
    Len(validarDistribucionGlobal(llamada.quinielas).warnings)
    + Len(validarEmpatesIndividuales(llamada.quinielas).warnings)
    + Len(validarConcentracion(llamada.quinielas).warnings)

ErroresDeLasVerificaciones ==
    Len(validarDistribucionGlobal(llamada.quinielas).errores)
    + Len(validarEmpatesIndividuales(llamada.quinielas).errores)
    + Len(validarConcentracion(llamada.quinielas).errores)

ErrorAgregado == [nivel |-> "error", msg |-> "Demasiadas advertencias en la validacion"]

\* C6: for a non-empty list the report is valid exactly when the three checks
\* produced no error and at most 3 warnings; with no error and more than 3
\* warnings it is invalid and its error list is exactly the one aggregate error.
C6_ReglaDeValidez ==
    ConLista =>
        /\ retorno[1].es_valido
              = (ErroresDeLasVerificaciones = 0 /\ AdvertenciasDeLasVerificaciones <= 3)
        /\ (ErroresDeLasVerificaciones = 0 /\ AdvertenciasDeLasVerificaciones > 3)
              => /\ ~retorno[1].es_valido
                 /\ retorno[1].errores = <<ErrorAgregado>>
        /\ (ErroresDeLasVerificaciones > 0 \/ AdvertenciasDeLasVerificaciones <= 3)
              => Len(retorno[1].errores) = ErroresDeLasVerificaciones
        /\ Len(retorno[1].warnings) = AdvertenciasDeLasVerificaciones

\* C6's case: the checks found no error and more than 3 warnings, and the report
\* was made invalid by the aggregate error alone.
C6_Witness ==
    /\ ConLista
    /\ ErroresDeLasVerificaciones = 0
    /\ AdvertenciasDeLasVerificaciones > 3
    /\ retorno[1].errores = <<ErrorAgregado>>

\* The slots of a portfolio whose most-picked outcome has a share above the limit.
SlotsConcentrados(quinielas) ==
    {s \in 1..14 :
        \E r \in Resultados :
            Cardinality({k \in DOMAIN quinielas : quinielas[k].resultados[s] = r}) * 100
                > (IF s <= 3 THEN 60 ELSE 70) * Len(quinielas)}

VeinteConLocalEnElPrimero ==
    /\ retorno # <<>>
    /\ ~llamada.nulo
    /\ Len(llamada.quinielas) = 20
    /\ \A k \in DOMAIN llamada.quinielas : llamada.quinielas[k].resultados[1] = "L"

ErrorParaElPrimero ==
    \E e \in DOMAIN retorno[1].errores :
        /\ retorno[1].errores[e].msg = "multiples violaciones de concentracion"
        /\ \E d \in DOMAIN retorno[1].errores[e].detalle :
              retorno[1].errores[e].detalle[d].partido = 1

AdvertenciaParaElPrimero ==
    \E w \in DOMAIN retorno[1].warnings :
        /\ retorno[1].warnings[w].msg = "concentracion"
        /\ retorno[1].warnings[w].partido = 1
        /\ retorno[1].warnings[w].resultado = "L"
        /\ retorno[1].warnings[w].conteo = 20

\* C7 as stated: for 20 tickets that all pick L on slot 1 the validator records
\* an error for slot 1, whatever the other slots hold.
C7_ErrorEnElPrimero == VeinteConLocalEnElPrimero => ErrorParaElPrimero

\* C7 as amended: for 20 tickets that all pick L on slot 1 the validator records
\* a concentration finding for slot 1: a warning naming slot 1 (and no
\* concentration error) when at most 3 slots exceed their limit, and the one
\* aggregated concentration error, slot 1 its first entry, when more than 3 do.
C7_HallazgoEnElPrimero ==
    VeinteConLocalEnElPrimero =>
        IF Cardinality(SlotsConcentrados(llamada.quinielas)) <= 3
        THEN AdvertenciaParaElPrimero /\ ~ErrorParaElPrimero
        ELSE /\ ErrorParaElPrimero
             /\ ~AdvertenciaParaElPrimero
             /\ \E e \in DOMAIN retorno[1].errores :
                    /\ retorno[1].errores[e].msg = "multiples violaciones de concentracion"
                    /\ retorno[1].errores[e].detalle[1].partido = 1

\* C7's case: 20 tickets, all L on slot 1, at most 3 concentrated slots, and the
\* report holds the warning for slot 1.
C7_Witness ==
    /\ VeinteConLocalEnElPrimero
    /\ Cardinality(SlotsConcentrados(llamada.quinielas)) <= 3
    /\ AdvertenciaParaElPrimero

\* The distribution messages of the report for outcome r, by level.
MensajesDistribucion(lista, r) ==
    Cardinality({m \in DOMAIN lista :
        lista[m].msg = "distribucion" /\ lista[m].resultado = r})

ConteoDe(quinielas, r) ==
    Cardinality({<<k, i>> \in (DOMAIN quinielas) \X (1..14) :
        quinielas[k].resultados[i] = r})

\* What C8 says the check finds for a count c of total t and the range
\* [lo/100, hi/100]: nothing inside the range, a warning up to 0.03 outside it,
\* an error beyond.
HallazgoEsperado(c, t, lo, hi) ==
    IF c * 100 >= lo * t /\ c * 100 <= hi * t THEN "ninguno"
    ELSE IF c * 100 >= (lo - 3) * t /\ c * 100 <= (hi + 3) * t THEN "warning"
    ELSE "error"

HallazgoObservado(r) ==
    <<MensajesDistribucion(retorno[1].warnings, r), MensajesDistribucion(retorno[1].errores, r)>>

ComoPar(hallazgo) ==
    IF hallazgo = "ninguno" THEN <<0, 0>>
    ELSE IF hallazgo = "warning" THEN <<1, 0>>
    ELSE <<0, 1>>

\* C8: each of the L/E/V shares is classified on its own: inside its historical
\* range (bounds included) no finding, outside by at most 0.03 exactly one
\* warning, outside by more than 0.03 exactly one error.
C8_DistribucionGlobal ==
    ConLista =>
        \A r \in Resultados :
            HallazgoObservado(r)
                = ComoPar(HallazgoEsperado(ConteoDe(llamada.quinielas, r),
                                           14 * Len(llamada.quinielas),
                                           rangoHistorico(r)[1], rangoHistorico(r)[2]))

\* C9: without a list, or with an empty one, the report is invalid, has exactly
\* one error, no warning and no metric.
C9_ListaVacia ==
    (retorno # <<>> /\ (llamada.nulo \/ Len(llamada.quinielas) = 0)) =>
        /\ ~retorno[1].es_valido
        /\ Len(retorno[1].errores) = 1
        /\ Len(retorno[1].warnings) = 0
        /\ DOMAIN retorno[1].metricas = {}

\* C9's case: validatePortfolio returned for a call without a list.
C9_Witness ==
    /\ retorno # <<>>
    /\ llamada.nulo
    /\ ~retorno[1].es_valido

(***************************************************************************)
(* SpecClasificar: clasificarPartido called on every calibrated match      *)
(* whose probabilities are multiples of 1/Escala.                          *)
(***************************************************************************)
InitClasificar ==
    /\ PaginaInicial
    /\ llamada \in {[partido |-> Calibrado(l, e)] :
                        <<l, e>> \in {x \in (0..Escala) \X (0..Escala) : x[1] + x[2] <= Escala}}
    /\ retorno = <<>>

LlamarClasificarPartido ==
    /\ retorno = <<>>
    /\ retorno' = <<clasificarPartido(llamada.partido)>>
    /\ UNCHANGED <<llamada, paginaVars>>

SpecClasificar == InitClasificar /\ [][LlamarClasificarPartido]_vars

ProbsDe(partido) == {partido.prob_local, partido.prob_empate, partido.prob_visitante}

ReglaAncla(partido) == \E q \in ProbsDe(partido) : q * 100 > 60 * partido.den

ReglaTendenciaEmpate(partido) ==
    /\ partido.prob_empate * 100 > 30 * partido.den
    /\ \A q \in ProbsDe(partido) : partido.prob_empate >= q

ReglaDivisor(partido) ==
    /\ \E q \in ProbsDe(partido) : q * 100 >= 40 * partido.den
    /\ \A q \in ProbsDe(partido) : q * 100 < 60 * partido.den

\* C10: every match receives exactly one of the four categories, decided from its
\* calibrated probabilities by the first rule that applies: Ancla if the largest
\* is above 0.60; else TendenciaEmpate if prob_empate is above 0.30 and not below
\* the other two; else Divisor if the largest is in [0.40, 0.60); else Neutro.
C10_Clasificacion ==
    retorno # <<>> =>
        /\ retorno[1] \in {"Ancla", "TendenciaEmpate", "Divisor", "Neutro"}
        /\ (retorno[1] = "Ancla") = ReglaAncla(llamada.partido)
        /\ (retorno[1] = "TendenciaEmpate")
              = (~ReglaAncla(llamada.partido) /\ ReglaTendenciaEmpate(llamada.partido))
        /\ (retorno[1] = "Divisor")
              = (/\ ~ReglaAncla(llamada.partido)
                 /\ ~ReglaTendenciaEmpate(llamada.partido)
                 /\ ReglaDivisor(llamada.partido))

\* C10's case: a match that both the TendenciaEmpate and the Divisor rule fit was
\* classified, by the earlier rule.
C10_Witness ==
    /\ retorno = <<"TendenciaEmpate">>
    /\ ReglaDivisor(llamada.partido)

(***************************************************************************)
(* SpecSugerido: getResultadoSugerido called on every calibrated match     *)
(* whose probabilities are multiples of 1/Escala.                          *)
(***************************************************************************)
LlamarGetResultadoSugerido ==
    /\ retorno = <<>>
    /\ retorno' = <<getResultadoSugerido(llamada.partido)>>
    /\ UNCHANGED <<llamada, paginaVars>>

SpecSugerido == InitClasificar /\ [][LlamarGetResultadoSugerido]_vars

\* The outcomes in the order Home, Draw, Away.
OrdenResultados == <<"L", "E", "V">>

ProbPorResultado(partido, r) ==
    CASE r = "L" -> partido.prob_local
      [] r = "E" -> partido.prob_empate
      [] r = "V" -> partido.prob_visitante

\* The first outcome, in the order Home, Draw, Away, whose probability is maximal.
PrimerMaximo(partido) ==
    LET maximos == {k \in 1..3 :
                       \A j \in 1..3 :
                           ProbPorResultado(partido, OrdenResultados[k])
                               >= ProbPorResultado(partido, OrdenResultados[j])}
    IN  OrdenResultados[CHOOSE k \in maximos : \A j \in maximos : k <= j]

\* C11: the suggested outcome has maximal calibrated probability, and among
\* outcomes tied for the maximum it is the first in the order Home, Draw, Away.
C11_PrimeroEnEmpate ==
    retorno # <<>> => retorno[1] = PrimerMaximo(llamada.partido)

(***************************************************************************)
(* SpecCalibrar: aplicarCalibracionBayesiana called on every raw match     *)
(* whose probabilities are multiples of 1/PasosProb in [0, 1].             *)
(***************************************************************************)
partidoEntrada(pl, pe, pv, es_final, forma, lesiones) ==
    [local |-> "local", visitante |-> "visitante",
     prob_local |-> pl, prob_empate |-> pe, prob_visitante |-> pv, den |-> PasosProb,
     es_final |-> es_final, forma_diferencia |-> forma, lesiones_impact |-> lesiones]

InitCalibrar ==
    /\ PaginaInicial
    /\ llamada \in {[partido |-> partidoEntrada(pl, pe, pv, es_final, forma, lesiones)] :
                        pl \in 0..PasosProb, pe \in 0..PasosProb, pv \in 0..PasosProb,
                        es_final \in BOOLEAN,
                        forma \in (-MaxForma)..MaxForma,
                        lesiones \in (-MaxLesiones)..MaxLesiones}
    /\ retorno = <<>>

LlamarAplicarCalibracion ==
    /\ retorno = <<>>
    /\ retorno' = <<aplicarCalibracionBayesiana(llamada.partido)>>
    /\ UNCHANGED <<llamada, paginaVars>>

SpecCalibrar == InitCalibrar /\ [][LlamarAplicarCalibracion]_vars

SumaDeEntrada ==
    llamada.partido.prob_local + llamada.partido.prob_empate + llamada.partido.prob_visitante

\* C12: for every raw match with probabilities in [0, 1] and a positive sum, any
\* forma_diferencia, lesiones_impact and es_final, the three calibrated
\* probabilities sum to 1.
C12_SumaUno ==
    (retorno # <<>> /\ SumaDeEntrada > 0) =>
        /\ retorno[1].den # 0
        /\ retorno[1].prob_local + retorno[1].prob_empate + retorno[1].prob_visitante
              = retorno[1].den

\* C13: calibrating a match whose raw probabilities have a non-positive sum ends
\* in an InvalidProbabilities error and returns no calibrated probabilities.
C13_ProbabilidadesInvalidas ==
    (retorno # <<>> /\ SumaDeEntrada <= 0) =>
        /\ "error" \in DOMAIN retorno[1]
        /\ "prob_local" \notin DOMAIN retorno[1]

(***************************************************************************)
(* Claims about the page's handlers (SpecPagina).                          *)
(***************************************************************************)
\* C14: a classification request made with fewer than 14 matches loaded is
\* rejected: the classified matches, the core tickets, the satellites and the
\* final portfolio are left as they were.
C14_RechazoSinCambios ==
    [][(Len(partidosRegular) < 14 /\ clasificarPartidos)
          => UNCHANGED <<partidosClasificados, quinielasCore, quinielasSatelites,
                         quinielasFinales, validacion>>]_vars

\* C14's case: fewer than 14 matches (and at least one) are loaded while
\* classified matches, tickets and a final portfolio of an earlier load exist,
\* so a request is rejected with something to preserve.
C14_Witness ==
    /\ Len(partidosRegular) > 0
    /\ Len(partidosRegular) < 14
    /\ Len(partidosClasificados) > 0
    /\ Len(quinielasCore) > 0
    /\ Len(quinielasSatelites) > 0
    /\ Len(quinielasFinales) > 0

(***************************************************************************)
(* Claims about generateSatelliteQuinielas as a whole (SpecSatelites).     *)
(***************************************************************************)
\* C15: generateSatelliteQuinielas called with a negative count ends in an
\* InvalidCount error and returns no ticket list.
C15_ConteoInvalido ==
    (retorno # <<>> /\ llamada.numSatelites < 0) =>
        /\ retorno[1] # <<>>
        /\ DOMAIN retorno[1] = {"error"}

\* C16: for a count S >= 0 generateSatelliteQuinielas returns exactly S tickets:
\* S \div 2 pairs, A then B with the pair's id, then one ticket without pair id
\* exactly when S is odd; every ticket has one outcome per classified match.
C16_ConteoYForma ==
    (retorno # <<>> /\ llamada.numSatelites >= 0) =>
        LET S == llamada.numSatelites
            sats == retorno[1]
        IN  /\ Len(sats) = S
            /\ \A k \in 0..((S \div 2) - 1) :
                  /\ sats[2 * k + 1].par_id = <<k>>
                  /\ sats[2 * k + 2].par_id = <<k>>
                  /\ sats[2 * k + 1].id = <<"Sat", 2 * k + 1, "A">>
                  /\ sats[2 * k + 2].id = <<"Sat", 2 * k + 1, "B">>
            /\ \A t \in 1..S :
                  /\ (sats[t].par_id = <<>>) = (t = S /\ S % 2 = 1)
                  /\ sats[t].tipo = "Satelite"
                  /\ DOMAIN sats[t].resultados = DOMAIN llamada.partidosClasificados
                  /\ \A i \in DOMAIN sats[t].resultados :
                        sats[t].resultados[i] \in {"L", "E", "V"}

\* C16's case: an odd count above 2, answered by a pair and a single ticket.
C16_Witness ==
    /\ retorno # <<>>
    /\ llamada.numSatelites = 3
    /\ Len(retorno[1]) = 3
    /\ retorno[1][1].par_id = retorno[1][2].par_id
    /\ retorno[1][3].par_id = <<>>

(***************************************************************************)
(* SpecCore: generateCoreQuinielas called with each list of 14 classified  *)
(* matches, a list of 14 Ancla matches among them, and each pattern of     *)
(* random draws.                                                           *)
(***************************************************************************)
\* n matches that are all Ancla, each with a draw probability above 0.20.
soloAnclas(n) ==
    [i \in 1..n |-> clasificado(i - 1, "local", "visitante", Calibrado(13, 5))]

InitCore ==
    /\ PaginaInicial
    /\ llamada \in {[partidosClasificados |-> p, aleatorio |-> a, muestras |-> m] :
                        p \in ListasClasificadas(14) \cup {soloAnclas(14)},
                        a \in Patrones, m \in Muestras}
    /\ retorno = <<>>

LlamarGenerateCore ==
    /\ retorno = <<>>
    /\ retorno' = <<generateCoreQuinielas(llamada.partidosClasificados, llamada.aleatorio,
                                          llamada.muestras)>>
    /\ UNCHANGED <<llamada, paginaVars>>

SpecCore == InitCore /\ [][LlamarGenerateCore]_vars

\* C17: generateCoreQuinielas given 14 classified matches returns exactly 4
\* tickets of kind Core, each with exactly 14 outcomes, each L, E or V.
C17_CuatroDeCatorce ==
    retorno # <<>> =>
        /\ Len(retorno[1]) = 4
        /\ \A k \in DOMAIN retorno[1] :
              /\ retorno[1][k].tipo = "Core"
              /\ DOMAIN retorno[1][k].resultados = 1..14
              /\ \A i \in 1..14 : retorno[1][k].resultados[i] \in {"L", "E", "V"}

\* C17's case: the call returned and the variation gave four different tickets.
C17_Witness ==
    /\ retorno # <<>>
    /\ Len(retorno[1]) = 4
    /\ \A j, k \in 1..4 : j # k => retorno[1][j].resultados # retorno[1][k].resultados

(***************************************************************************)
(* Satellite generation for a list without Divisor matches (SpecSatelites). *)
(***************************************************************************)
\* The fields of a ticket object built by the generators.
CamposDeQuiniela ==
    {"id", "tipo", "resultados", "par_id", "empates", "prob_11_plus", "distribucion"}

SinDivisor(partidos) ==
    \A i \in DOMAIN partidos : partidos[i].clasificacion # "Divisor"

\* C18: when no classified match is Divisor and at least one pair is asked for,
\* generateSatelliteQuinielas still returns the tickets asked for, and what it
\* returns carries a warning: something beyond the ticket fields that a run
\* with Divisor matches returns.
C18_SinDivisorAdvertido ==
    (/\ retorno # <<>>
     /\ llamada.numSatelites >= 2
     /\ SinDivisor(llamada.partidosClasificados)) =>
        /\ Len(retorno[1]) = llamada.numSatelites
        /\ \/ DOMAIN retorno[1] # 1..llamada.numSatelites
           \/ \E t \in DOMAIN retorno[1] : DOMAIN retorno[1][t] # CamposDeQuiniela

(***************************************************************************)
(* SpecSemilla: two PortfolioGenerator instances built with the same seed  *)
(* generate core and satellite tickets from the same classified matches.   *)
(* The constructor stores the seed and no method reads it: every draw is a *)
(* Math.random() call, so each instance has draws of its own.              *)
(***************************************************************************)
\* new PortfolioGenerator(seed)
PortfolioGenerator(seed) == [seed |-> seed]

Semillas == {42, 7}

\* Math.random() sequences that repeat one value.
PatronesConstantes == {[i \in 1..LargoPatron |-> v] : v \in ValoresAleatorios}

InitSemilla ==
    /\ PaginaInicial
    /\ llamada \in {[seed |-> sd, partidosClasificados |-> p,
                      numSatelites |-> MaxSatelites,
                      aleatorio |-> <<a1, a2>>, muestras |-> <<m1, m2>>] :
                        sd \in Semillas,
                        p \in ListasClasificadas(NumPartidos),
                        a1 \in PatronesConstantes, a2 \in PatronesConstantes,
                        m1 \in Muestras, m2 \in Muestras}
    /\ retorno = <<>>

\* What instance k returns: generateCoreQuinielas, then
\* generateSatelliteQuinielas with that core.
generadoPor(generator, k) ==
    LET core == generateCoreQuinielas(llamada.partidosClasificados,
                                      llamada.aleatorio[k], llamada.muestras[k])
    IN  [seed |-> generator.seed,
         core |-> core,
         satelites |-> generateSatelliteQuinielas(llamada.partidosClasificados, core,
                                                  llamada.numSatelites,
                                                  llamada.aleatorio[k],
                                                  llamada.muestras[k])]

LlamarDosGeneradores ==
    /\ retorno = <<>>
    /\ retorno' = << <<generadoPor(PortfolioGenerator(llamada.seed), 1),
                       generadoPor(PortfolioGenerator(llamada.seed), 2)>> >>
    /\ UNCHANGED <<llamada, paginaVars>>

SpecSemilla == InitSemilla /\ [][LlamarDosGeneradores]_vars

\* C19: two generators built with the same seed and given the same classified
\* matches return identical core tickets and identical satellite tickets,
\* hit-probability estimates included.
C19_MismaSemillaMismoResultado ==
    (retorno # <<>> /\ retorno[1][1].seed = retorno[1][2].seed) =>
        /\ retorno[1][1].core = retorno[1][2].core
        /\ retorno[1][1].satelites = retorno[1][2].satelites

(***************************************************************************)
(* SpecBase: crearQuinielaBase called with each list of NumPartidos        *)
(* classified matches drawn from four calibrated matches.                  *)
(***************************************************************************)
\* An Ancla match, a TendenciaEmpate match whose draw is the single maximum,
\* a TendenciaEmpate match whose draw ties with the away win, and a Divisor.
CalibradosBase ==
    {Calibrado(13, 5), Calibrado(6, 8), Calibrado(4, 8), Calibrado(10, 6)}

InitBase ==
    /\ PaginaInicial
    /\ llamada \in {[partidosClasificados |->
                        [i \in 1..NumPartidos |->
                            clasificado(i - 1, "local", "visitante", c[i])]] :
                        c \in [1..NumPartidos -> CalibradosBase]}
    /\ retorno = <<>>

LlamarCrearQuinielaBase ==
    /\ retorno = <<>>
    /\ retorno' = <<crearQuinielaBase(llamada.partidosClasificados)>>
    /\ UNCHANGED <<llamada, paginaVars>>

SpecBase == InitBase /\ [][LlamarCrearQuinielaBase]_vars

\* The Draw outcomes placed in a ticket before slot i.
EmpatesAntesDe(quiniela, i) ==
    Cardinality({j \in 1..(i - 1) : quiniela[j] = "E"})

\* C20: in the ticket crearQuinielaBase returns, every Ancla slot holds the
\* match's suggested outcome, every TendenciaEmpate slot reached with fewer
\* than EMPATES_MAX Draw outcomes already placed holds Draw, and every other
\* slot holds the match's suggested outcome.
C20_BasePorCategoria ==
    retorno # <<>> =>
        \A i \in DOMAIN llamada.partidosClasificados :
            LET partido == llamada.partidosClasificados[i]
            IN  IF /\ partido.clasificacion = "TendenciaEmpate"
                   /\ EmpatesAntesDe(retorno[1], i) < EMPATES_MAX
                THEN retorno[1][i] = "E"
                ELSE retorno[1][i] = partido.resultadoSugerido

(***************************************************************************)
(* SpecEmpates: validarEmpatesIndividuales called with every non-empty     *)
(* portfolio that holds up to MaxCopias copies of tickets with 3, 4, 6 and *)
(* 7 draws.                                                                *)
(***************************************************************************)
\* A ticket whose first e outcomes are E and whose other outcomes are L.
quinielaConEmpates(e) ==
    [resultados |-> [i \in 1..14 |-> IF i <= e THEN "E" ELSE "L"], prob_11_plus |-> 0]

EmpatesDeEntrada == <<EMPATES_MIN - 1, EMPATES_MIN, EMPATES_MAX, EMPATES_MAX + 1>>

RECURSIVE portafolioDeEmpates(_, _)
portafolioDeEmpates(copias, desde) ==
    IF desde > Len(EmpatesDeEntrada) THEN <<>>
    ELSE [i \in 1..copias[desde] |-> quinielaConEmpates(EmpatesDeEntrada[desde])]
            \o portafolioDeEmpates(copias, desde + 1)

InitEmpates ==
    /\ PaginaInicial
    /\ llamada \in
          {[quinielas |-> portafolioDeEmpates(copias, 1)] :
                copias \in [1..Len(EmpatesDeEntrada) -> 0..MaxCopias]
                           \ {[t \in 1..Len(EmpatesDeEntrada) |-> 0]}}
    /\ retorno = <<>>

LlamarValidarEmpates ==
    /\ retorno = <<>>
    /\ retorno' = <<validarEmpatesIndividuales(llamada.quinielas)>>
    /\ UNCHANGED <<llamada, paginaVars>>

SpecEmpates == InitEmpates /\ [][LlamarValidarEmpates]_vars

\* The tickets of the call whose draw count is outside [4, 6].
FueraDeRango ==
    {k \in DOMAIN llamada.quinielas :
        LET e == Cardinality({i \in 1..14 : llamada.quinielas[k].resultados[i] = "E"})
        IN  e < 4 \/ e > 6}

\* C21: the draw-count check adds nothing when no ticket has a draw count
\* outside [4, 6]; exactly one error and no warning when the offending tickets
\* are more than 10% of the portfolio; and otherwise no error and one warning
\* for each offending ticket.
C21_EmpatesPorQuiniela ==
    retorno # <<>> =>
        IF FueraDeRango = {}
        THEN retorno[1].warnings = <<>> /\ retorno[1].errores = <<>>
        ELSE IF Cardinality(FueraDeRango) * 10 > Len(llamada.quinielas)
        THEN Len(retorno[1].errores) = 1 /\ retorno[1].warnings = <<>>
        ELSE /\ retorno[1].errores = <<>>
             /\ Len(retorno[1].warnings) = Cardinality(FueraDeRango)
             /\ \A k \in FueraDeRango :
                    \E w \in DOMAIN retorno[1].warnings :
                        retorno[1].warnings[w].quiniela = k

\* C21's case: one offending ticket, above the range, that is exactly 10% of the
\* portfolio and is answered by a warning.
C21_Witness ==
    /\ retorno # <<>>
    /\ Len(llamada.quinielas) = 10
    /\ Cardinality(FueraDeRango) = 1
    /\ retorno[1].errores = <<>>
    /\ Len(retorno[1].warnings) = 1
    /\ retorno[1].warnings[1].limite = "maximo"

(***************************************************************************)
(* The concentration check within validatePortfolio (SpecValidar).         *)
(***************************************************************************)
AdvertenciasDeConcentracion ==
    {w \in DOMAIN retorno[1].warnings : retorno[1].warnings[w].msg = "concentracion"}

ErroresDeConcentracion ==
    {e \in DOMAIN retorno[1].errores :
        retorno[1].errores[e].msg = "multiples violaciones de concentracion"}

\* C22: a slot violates exactly when the share of its most-picked outcome is
\* above 0.60 (slots 1-3) or 0.70 (slots 4-14); with more than 3 violating slots
\* the concentration check adds exactly one error and no warning, and otherwise
\* no error and one warning for each violating slot.
C22_Concentracion ==
    ConLista =>
        LET violan == SlotsConcentrados(llamada.quinielas)
        IN  IF Cardinality(violan) > 3
            THEN /\ Cardinality(ErroresDeConcentracion) = 1
                 /\ AdvertenciasDeConcentracion = {}
            ELSE /\ ErroresDeConcentracion = {}
                 /\ Cardinality(AdvertenciasDeConcentracion) = Cardinality(violan)
                 /\ \A s \in violan :
                        \E w \in AdvertenciasDeConcentracion :
                            retorno[1].warnings[w].partido = s

\* C22's case: exactly 3 violating slots, one of them past slot 3, answered by
\* three warnings and no concentration error.
C22_Witness ==
    /\ ConLista
    /\ Cardinality(SlotsConcentrados(llamada.quinielas)) = 3
    /\ \E s \in SlotsConcentrados(llamada.quinielas) : s > 3
    /\ Cardinality(AdvertenciasDeConcentracion) = 3
    /\ ErroresDeConcentracion = {}

(***************************************************************************)
(* SpecVariacion: aplicarVariacion called on the base ticket of each       *)
(* classified list, for variants 1 to 3 and each pattern of random draws.  *)
(***************************************************************************)
InitVariacion ==
    /\ PaginaInicial
    /\ llamada \in {[partidosClasificados |-> p, quiniela |-> crearQuinielaBase(p),
                      variacion |-> i, aleatorio |-> a] :
                        p \in ListasClasificadas(NumPartidos),
                        i \in 1..3,
                        a \in Patrones}
    /\ retorno = <<>>

LlamarAplicarVariacion ==
    /\ retorno = <<>>
    /\ retorno' = <<aplicarVariacion(llamada.quiniela, llamada.partidosClasificados,
                                     llamada.variacion, llamada.aleatorio)>>
    /\ UNCHANGED <<llamada, paginaVars>>

SpecVariacion == InitVariacion /\ [][LlamarAplicarVariacion]_vars

NoAnclas(partidos) ==
    {i \in DOMAIN partidos : partidos[i].clasificacion # "Ancla"}

\* r is a second-most-probable outcome of the match: one outcome is at least as
\* probable and one of the other outcomes is at most as probable.
EsSegundo(partido, r) ==
    \E a, c \in Resultados :
        /\ Cardinality({a, r, c}) = 3
        /\ probDe(partido, a) >= probDe(partido, r)
        /\ probDe(partido, r) >= probDe(partido, c)

\* C23: variant i of the base ticket, before the tie adjustment, is the base
\* ticket with min(2 + i, number of non-Ancla matches) distinct non-Ancla slots
\* each holding a second-most-probable outcome of its match; every other slot,
\* every Ancla slot among them, holds the base ticket's outcome.
C23_Variacion ==
    retorno # <<>> =>
        LET partidos == llamada.partidosClasificados
            libres == NoAnclas(partidos)
            cambios == IF 2 + llamada.variacion < Cardinality(libres)
                       THEN 2 + llamada.variacion ELSE Cardinality(libres)
        IN  /\ DOMAIN retorno[1] = DOMAIN llamada.quiniela
            /\ \E S \in SUBSET libres :
                  /\ Cardinality(S) = cambios
                  /\ \A s \in S : EsSegundo(partidos[s], retorno[1][s])
                  /\ \A j \in DOMAIN partidos \ S : retorno[1][j] = llamada.quiniela[j]

\* C23's case: variant 3 changed five slots of the base ticket and left an Ancla
\* slot as it was.
C23_Witness ==
    /\ retorno # <<>>
    /\ llamada.variacion = 3
    /\ Cardinality({i \in DOMAIN retorno[1] : retorno[1][i] # llamada.quiniela[i]}) = 5
    /\ \E i \in DOMAIN retorno[1] : llamada.partidosClasificados[i].clasificacion = "Ancla"

(***************************************************************************)
(* SpecProb: calcularProb11Plus called with 14 classified matches, the     *)
(* first of them certain home wins, and tickets that pick E on their first *)
(* slots and L on the others.                                              *)
(***************************************************************************)
\* seguros matches with prob_local = 1, then matches with 0.50 / 0.30 / 0.20.
partidosConSeguros(seguros) ==
    [i \in 1..14 |->
        clasificado(i - 1, "local", "visitante",
                    IF i <= seguros THEN Calibrado(Escala, 0) ELSE Calibrado(10, 6))]

InitProb ==
    /\ PaginaInicial
    /\ llamada \in {[partidosClasificados |-> partidosConSeguros(c),
                      quiniela |-> [i \in 1..14 |-> IF i <= z THEN "E" ELSE "L"],
                      muestras |-> m] :
                        c \in 0..14, z \in 0..14, m \in Muestras}
    /\ retorno = <<>>

LlamarCalcularProb11Plus ==
    /\ retorno = <<>>
    /\ retorno' = <<calcularProb11Plus(llamada.quiniela, llamada.partidosClasificados,
                                       llamada.muestras)>>
    /\ UNCHANGED <<llamada, paginaVars>>

SpecProb == InitProb /\ [][LlamarCalcularProb11Plus]_vars

\* The numerator of the calibrated probability of the outcome chosen at slot i.
ProbElegida(i) ==
    LET partido == llamada.partidosClasificados[i]
    IN  IF llamada.quiniela[i] = "L" THEN partido.prob_local
        ELSE IF llamada.quiniela[i] = "E" THEN partido.prob_empate
        ELSE partido.prob_visitante

\* The simulations of run r in which at least 11 slots are hits: a slot is a hit
\* when its sample is strictly below the probability of the chosen outcome.
ExitosDeLaCorrida(r) ==
    LET corrida == llamada.muestras[r]
        muestra(i) == corrida.patron[((i - 1) % Len(corrida.patron)) + 1]
        aciertos == Cardinality({i \in 1..14 :
                        muestra(i) * llamada.partidosClasificados[i].den
                            < ProbElegida(i) * 100})
    IN  IF aciertos >= 11 THEN corrida.veces ELSE 0

RECURSIVE ExitosHasta(_)
ExitosHasta(r) == IF r = 0 THEN 0 ELSE ExitosDeLaCorrida(r) + ExitosHasta(r - 1)

\* C24: the estimate is the number of simulations with at least 11 hits over the
\* number of simulations N: a multiple of 1/N in [0, 1], 0 whenever at least 4
\* of the 14 chosen outcomes have probability 0, and 1 whenever every chosen
\* outcome has probability 1.
C24_Estimacion ==
    retorno # <<>> =>
        /\ retorno[1] = ExitosHasta(Len(llamada.muestras))
        /\ retorno[1] \in 0..numSimulaciones
        /\ Cardinality({i \in 1..14 : ProbElegida(i) = 0}) >= 4 => retorno[1] = 0
        /\ (\A i \in 1..14 : ProbElegida(i) = llamada.partidosClasificados[i].den)
              => retorno[1] = numSimulaciones

\* C24's case: exactly 4 chosen outcomes have probability 0, the other ten are
\* certain, and the estimate is 0.
C24_Witness ==
    /\ retorno # <<>>
    /\ Cardinality({i \in 1..14 : ProbElegida(i) = 0}) = 4
    /\ Cardinality({i \in 1..14 :
            ProbElegida(i) = llamada.partidosClasificados[i].den}) = 10
    /\ retorno[1] = 0

(***************************************************************************)
(* The order of the stages of the page (SpecPagina).                       *)
(***************************************************************************)
\* A non-empty final portfolio comes with non-empty classified, core and
\* satellite lists, and holds Core tickets first and Satelite tickets after them.
PortafolioEnOrden ==
    Len(quinielasFinales) > 0 =>
        /\ Len(partidosClasificados) > 0
        /\ Len(quinielasCore) > 0
        /\ Len(quinielasSatelites) > 0
        /\ \E n \in 1..(Len(quinielasFinales) - 1) :
              \A k \in DOMAIN quinielasFinales :
                  quinielasFinales[k].tipo = IF k <= n THEN "Core" ELSE "Satelite"

\* C25: the classified list changes only with at least 14 matches loaded, the
\* core list only when classified matches exist, the satellite list only when
\* core tickets exist, the final portfolio and the report only when core and
\* satellite tickets both exist; and in every reachable state a non-empty final
\* portfolio comes with non-empty core, satellite and classified lists and lists
\* the core tickets first, followed by the satellites.
C25_OrdenDeEtapas ==
    /\ []PortafolioEnOrden
    /\ [][/\ partidosClasificados' # partidosClasificados => Len(partidosRegular) >= 14
          /\ quinielasCore' # quinielasCore => Len(partidosClasificados) > 0
          /\ quinielasSatelites' # quinielasSatelites => Len(quinielasCore) > 0
          /\ (quinielasFinales' # quinielasFinales \/ validacion' # validacion)
                => (Len(quinielasCore) > 0 /\ Len(quinielasSatelites) > 0)]_vars

\* C25's case: validation has produced a final portfolio of core tickets followed
\* by satellites.
C25_Witness ==
    /\ validacion # <<>>
    /\ Len(quinielasFinales) > 4
    /\ quinielasFinales[1].tipo = "Core"
    /\ quinielasFinales[Len(quinielasFinales)].tipo = "Satelite"

(***************************************************************************)
(* The provenance of the validated tickets (SpecPagina).                   *)
(***************************************************************************)
\* The core tickets are ones generateCoreQuinielas returns for the current
\* classified list.
CoreDeLaClasificacionActual ==
    \E f \in Fuentes :
        quinielasCore = generateCoreQuinielas(partidosClasificados, f.aleatorio, f.muestras)

\* The satellite tickets are ones generateSatelliteQuinielas returns for the
\* current classified list.
SatelitesDeLaClasificacionActual ==
    \E f \in Fuentes :
        quinielasSatelites =
            generateSatelliteQuinielas(partidosClasificados, quinielasCore,
                                       Len(quinielasSatelites), f.aleatorio, f.muestras)

\* C26: whenever validation runs, the core tickets and the satellite tickets it
\* places in the final portfolio were generated from the classified list that
\* is current at that moment.
C26_Procedencia ==
    [][(/\ validarPortafolio
        /\ Len(quinielasCore) # 0
        /\ Len(quinielasSatelites) # 0)
          => (CoreDeLaClasificacionActual /\ SatelitesDeLaClasificacionActual)]_vars

(***************************************************************************)
(* SpecAlternativo: getResultadoAlternativo called on the classified match *)
(* made from every calibrated match whose probabilities are multiples of   *)
(* 1/Escala.                                                               *)
(***************************************************************************)
LlamarGetResultadoAlternativo ==
    /\ retorno = <<>>
    /\ LET partido == clasificado(0, "local", "visitante", llamada.partido)
       IN  retorno' = <<[resultadoSugerido |-> partido.resultadoSugerido,
                         alternativo |-> getResultadoAlternativo(partido)]>>
    /\ UNCHANGED <<llamada, paginaVars>>

SpecAlternativo == InitClasificar /\ [][LlamarGetResultadoAlternativo]_vars

\* C27: for every classified match the outcome getResultadoAlternativo returns
\* differs from the match's suggested outcome, ties among the calibrated
\* probabilities included.
C27_AlternativoDistinto ==
    retorno # <<>> => retorno[1].alternativo # retorno[1].resultadoSugerido

(***************************************************************************)
(* The Ancla slots of the core tickets (SpecCore).                         *)
(***************************************************************************)
\* C28: in every ticket generateCoreQuinielas returns, each slot whose match is
\* Ancla holds that match's suggested outcome.
C28_AnclasEnCore ==
    retorno # <<>> =>
        \A k \in DOMAIN retorno[1] :
            \A i \in DOMAIN llamada.partidosClasificados :
                llamada.partidosClasificados[i].clasificacion = "Ancla" =>
                    retorno[1][k].resultados[i]
                        = llamada.partidosClasificados[i].resultadoSugerido

(***************************************************************************)
(* The range of the calibrated probabilities (SpecCalibrar).               *)
(***************************************************************************)
\* The fraction num / den lies in [0, 1].
EnUnidad(num, den) ==
    /\ den # 0
    /\ num * den >= 0
    /\ Abs(num) <= Abs(den)

\* C29: for raw probabilities in [0, 1] that sum to 1, and any integer
\* forma_diferencia and lesiones_impact, each of the three calibrated
\* probabilities lies in [0, 1].
C29_CalibradasEnUnidad ==
    (retorno # <<>> /\ SumaDeEntrada = llamada.partido.den) =>
        /\ EnUnidad(retorno[1].prob_local, retorno[1].den)
        /\ EnUnidad(retorno[1].prob_empate, retorno[1].den)
        /\ EnUnidad(retorno[1].prob_visitante, retorno[1].den)

(***************************************************************************)
(* SpecReajuste: ajustarEmpates called on every ticket of NumPartidos + 1  *)
(* slots (so that a ticket can hold two draws too many) with each of the   *)
(* classified lists and a list of draw-leaning matches, and then called    *)
(* again on the ticket it returned.                                        *)
(* retorno holds the tickets returned so far.                              *)
(***************************************************************************)
\* n draw-leaning matches; the two with the lowest draw probability come first:
\* one whose suggested outcome is the draw and one whose suggested outcome is
\* the away win.
listaDeEmpates(n) ==
    [i \in 1..n |->
        clasificado(i - 1, "local", "visitante",
                    IF i = 1 THEN Calibrado(7, 7)
                    ELSE IF i = 2 THEN Calibrado(6, 7) ELSE Calibrado(6, 8))]

InitReajuste ==
    /\ PaginaInicial
    /\ llamada \in {[quiniela |-> q, partidosClasificados |-> p] :
                        q \in Quinielas(NumPartidos + 1),
                        p \in ListasClasificadas(NumPartidos + 1)
                              \cup {listaDeEmpates(NumPartidos + 1)}}
    /\ retorno = <<>>

LlamarAjustarEmpatesOtraVez ==
    /\ Len(retorno) = 1
    /\ retorno' = Append(retorno,
                         ajustarEmpates(retorno[1], llamada.partidosClasificados))
    /\ UNCHANGED <<llamada, paginaVars>>

SpecReajuste ==
    InitReajuste /\ [][LlamarAjustarEmpates \/ LlamarAjustarEmpatesOtraVez]_vars

\* What holds of the tickets returned: the first has the length of the input
\* and is the input when the input has 4 to 6 draws; the second is the first.
AjusteEstable ==
    /\ Len(retorno) >= 1 =>
          /\ Len(retorno[1]) = Len(llamada.quiniela)
          /\ LET e == Cardinality({i \in DOMAIN llamada.quiniela :
                                      llamada.quiniela[i] = "E"})
             IN  (e >= 4 /\ e <= 6) => retorno[1] = llamada.quiniela
    /\ Len(retorno) >= 2 => retorno[2] = retorno[1]

\* C30: ajustarEmpates applied to its own output returns that output unchanged;
\* a ticket with 4 to 6 draws is returned with every slot unchanged; the output
\* has the length of the input; and no call changes the input ticket.
C30_Idempotente ==
    /\ []AjusteEstable
    /\ [][llamada'.quiniela = llamada.quiniela]_vars

\* C30's case: a ticket with two draws too many was changed by the first call,
\* which left it with a draw too many, and the second call returned the first
\* call's ticket.
C30_Witness ==
    /\ Len(retorno) = 2
    /\ Cardinality({i \in DOMAIN llamada.quiniela : llamada.quiniela[i] = "E"}) = 8
    /\ Cardinality({i \in DOMAIN retorno[1] : retorno[1][i] = "E"}) = 7
    /\ retorno[2] = retorno[1]

====
